---- MODULE Spec2Model ----
(***************************************************************************)
(* Model of the sandboxed tool executor (src/tools/executor.py), its SDK   *)
(* wrappers (src/tools/sdk_tools.py) and the stdio MCP client              *)
(* (src/tools/mcp_adapter.py).                                             *)
(*                                                                         *)
(* SpecMCP  : one MCPAdapter driven by concurrent asyncio tasks.  An       *)
(*            action is the code a task runs between two suspension points *)
(*            of the event loop.                                           *)
(* SpecExec : one ToolExecutor whose caller makes one tool call after the  *)
(*            other over a small file system with a symbolic link that     *)
(*            leads out of the project directory.                          *)
(***************************************************************************)
EXTENDS Integers, Sequences, FiniteSets, TLC

\* ------------------------------------------------------------------ bounds
NumCallers == 2         \* asyncio tasks using the adapter
MaxReq     == 3         \* request ids drawn in one behaviour
MaxDepth   == 1         \* components of a relative path argument
MaxLen     == 3         \* characters of a file and of a string argument

\* ------------------------------------------------------- program constants
DefaultTimeout   == 30  \* MCPAdapter(timeout=30.0)
PuppeteerTimeout == 60  \* PuppeteerMCPAdapter(timeout=60.0)
PreviewLen == 100       \* old_string[:100]

Callers == 1 .. NumCallers

VARIABLES
    \* MCPAdapter fields; of self._lock: the task that holds it or has been
    \* handed it, the tasks waiting for it, and whether it is bound to the
    \* event loop of the tasks (asyncio binds a lock to the loop of the first
    \* task that has to wait for it)
    timeout, process, initialized, request_id, lockHolder, lockWaiters,
    lockBound,
    \* the operating system, for the children that the adapter or a reading
    \* task still refers to: the children still running, the requests a child
    \* has not answered, the lines a child wrote to its stdout that nobody
    \* has read yet, the lines a reader took from the pipe and left in the
    \* buffer of the text stream, the reader threads that a timed-out request
    \* left blocked in readline, and whether the reader of the request under
    \* way is blocked in a read of the pipe
    alive, unanswered, childOut, decoded, orphans, inRead,
    \* the request id at the start of the behaviour
    firstId,
    \* the tasks: position, operation under way, the child whose stdout the
    \* task reads, the id of the request the task wrote, the initialized
    \* flag when the operation under way was called
    pc, op, rproc, req, issuedInit,
    \* what the last step did: the call that returned in it (task, operation,
    \* value returned or exception raised, outcome of its _send_request,
    \* initialized flag when it was called, process handle and initialized
    \* flag before the step), the line it wrote to the child's stdin, the
    \* child it spawned
    lastRet, lastWrite, lastSpawn,
    \* history: a stop() call has stopped an initialized session
    stopDone,
    \* history: how far the handshake with each child has come
    shake,
    \* the file system (directories, files and their contents), whether the
    \* ToolExecutor has an adapter, and the tool call that has returned and
    \* whose value the caller has not taken yet
    fs, mcp_adapter, lastCall

mcpVars == << timeout, process, initialized, request_id, lockHolder,
              lockWaiters, lockBound, alive, unanswered, childOut, decoded, orphans,
              inRead, firstId, pc, op, rproc, req,
              issuedInit, lastRet, lastWrite, lastSpawn, stopDone, shake >>

execVars == << fs, mcp_adapter, lastCall >>

vars == << mcpVars, execVars >>

\* ---------------------------------------------------------------- messages
NoPath == [abs |-> FALSE, comps |-> << >>]
NoMsg  == [pre |-> << >>, text |-> "", arg |-> "", n |-> 0, path |-> NoPath,
           body |-> << >>]
Msg(text)       == [NoMsg EXCEPT !.text = text]
MsgN(text, n)   == [NoMsg EXCEPT !.text = text, !.n = n]
MsgA(text, arg) == [NoMsg EXCEPT !.text = text, !.arg = arg]
MsgP(text, p)   == [NoMsg EXCEPT !.text = text, !.path = p]
MsgB(text, b)   == [NoMsg EXCEPT !.text = text, !.body = b]
Wrap(prefix, m) == [m EXCEPT !.pre = << prefix >> \o m.pre]

\* what a call hands back: a value (a mapping is a function from its keys)
\* or an exception
NoRet            == [kind |-> "none",   exc |-> "",  val |-> ("none" :> NoMsg)]
Returned(key, m) == [kind |-> "return", exc |-> "",  val |-> (key :> m)]
Raised(exc, m)   == [kind |-> "raise",  exc |-> exc, val |-> ("exception" :> m)]

\* outcome of one _send_request
NoOut ==
    [kind |-> "none",  exc |-> "",  msg |-> NoMsg, reply |-> "", id |-> 0]
OutRaise(exc, m) ==
    [kind |-> "raise", exc |-> exc, msg |-> m,     reply |-> "", id |-> 0]
OutResp(k) ==
    [kind |-> "resp",  exc |-> "",  msg |-> NoMsg, reply |-> k,  id |-> 0]

\* the lines a child can answer with
ReplyKinds == { "result_content",   \* {"result": {"content": [...]}}
                "result_empty",     \* {"result": {}}
                "result_nondict",   \* {"result": "text"}
                "error_dict",       \* {"error": {"message": ...}}
                "error_other",      \* {"error": "text"}
                "json_list",        \* []
                "json_scalar",      \* 5, null
                "malformed" }       \* not JSON

HasErrorField(k) == k \in {"error_dict", "error_other"}

\* subclasses of Exception that the modelled code can see
ExceptionClasses == { "MCPError", "OSError", "FileNotFoundError",
                      "BrokenPipeError", "TimeoutExpired", "AttributeError",
                      "TypeError", "KeyError", "SecurityError",
                      "UnicodeDecodeError", "TimeoutError", "RuntimeError" }


\* ============================================================= MCPAdapter
NoWrite == [child |-> 0, method |-> "", id |-> 0, stage |-> "none"]

\* the handshake with a child, as the child has seen it: nothing written to
\* it yet, a request other than initialize written first, initialize
\* written, a response to initialize without an error field read, the
\* initialized notification written after that
Stages == {"none", "spawned", "other", "sent", "ok", "notified"}

\* the stage of child ch once a line of the method has been written to it
Wrote(sh, ch, method) ==
    CASE method = "initialize" -> [sh EXCEPT ![ch] = "sent"]
      [] method = "notifications/initialized" /\ sh[ch] = "ok" ->
             [sh EXCEPT ![ch] = "notified"]
      [] method # "notifications/initialized" /\ sh[ch] = "spawned" ->
             [sh EXCEPT ![ch] = "other"]
      [] OTHER -> sh

\* the stage of child ch once start() has read the outcome ot of its
\* initialize request from it
ReadInit(sh, ch, o, ot) ==
    IF o = "start" /\ sh[ch] = "sent" /\ ot.kind = "resp"
       /\ ot.reply \notin {"error_dict", "error_other"}
    THEN [sh EXCEPT ![ch] = "ok"]
    ELSE sh

\* the adapter's fields and what they refer to, as one record; written and
\* spawnedChild collect what the step under way writes and spawns
Sess == [ process |-> process, initialized |-> initialized,
          request_id |-> request_id, lockHolder |-> lockHolder,
          lockWaiters |-> lockWaiters, lockBound |-> lockBound,
          alive |-> alive,
          unanswered |-> unanswered, childOut |-> childOut,
          decoded |-> decoded, orphans |-> orphans, inRead |-> inRead,
          shake |-> shake, written |-> NoWrite, spawnedChild |-> 0 ]

\* what one step of task c leaves behind
Step(s, pcv, retv, outv, rp, rq) ==
    [s |-> s, pc |-> pcv, ret |-> retv, out |-> outv, rproc |-> rp, req |-> rq]

is_running(s) == s.process # 0 /\ s.process \in s.alive

\* a gate that lets every task through at once
acquire_nolock(s, c) == [s EXCEPT !.lockHolder = c]

\* asyncio.Lock: acquire takes a free lock with no waiter at once, otherwise
\* queues the task; release hands the lock to the first waiter
acquire(s, c) ==
    IF s.lockHolder = 0 /\ s.lockWaiters = << >>
    THEN [s EXCEPT !.lockHolder = c]
    ELSE [s EXCEPT !.lockWaiters = Append(s.lockWaiters, c),
                   !.lockBound = TRUE]

\* a release that frees the lock and wakes no waiter
release_unheard(s) == [s EXCEPT !.lockHolder = 0]

release(s) ==
    IF s.lockWaiters # << >>
    THEN [s EXCEPT !.lockHolder = Head(s.lockWaiters),
                   !.lockWaiters = Tail(s.lockWaiters)]
    ELSE [s EXCEPT !.lockHolder = 0]

\* ------------------------------------------------------------------ stop()
\* what can go wrong while stop() cleans up
StopErrors == {"none", "close", "terminate", "wait_timeout", "kill"}

\* the exception that leaves the body of stop()'s try statement: the
\* TimeoutExpired of wait() is handled there by kill() and a second wait()
CleanupException(e) ==
    IF e \in {"close", "terminate", "kill"} THEN "OSError" ELSE "none"

\* a handler that catches the timeout of wait() alone
CaughtByStop_narrow(exc) == exc = "TimeoutExpired"

\* except Exception: pass
CaughtByStop(exc) == exc \in ExceptionClasses

\* a stop() that also starts the request ids again
stop_reset(s, e) ==
    IF s.process = 0
    THEN [s |-> s, exc |-> "none"]
    ELSE [ s |-> [s EXCEPT !.process = 0, !.initialized = FALSE,
                           !.request_id = 0,
                           !.alive = s.alive \ {s.process}],
           exc |-> "none" ]

\* stop(): the session afterwards and the exception that leaves stop()
stop(s, e) ==
    IF s.process = 0
    THEN [s |-> s, exc |-> "none"]
    ELSE LET x == CleanupException(e)
         IN  [ s |-> [s EXCEPT !.process = 0,
                               !.initialized = FALSE,
                               !.alive = IF e \in {"close", "terminate", "kill"}
                                         THEN s.alive
                                         ELSE s.alive \ {s.process}],
               exc |-> IF x # "none" /\ ~CaughtByStop(x) THEN x ELSE "none" ]

\* -------------------------------------------------------- _send_request
\* the part of _send_request that runs once the lock is held, up to the
\* await of the response line
send_request_write(s, c, method) ==
    IF s.process = 0
    THEN [ s |-> release(s), wrote |-> FALSE,
           out |-> OutRaise("MCPError", Msg("MCP server not running")) ]
    ELSE LET id == s.request_id + 1
             s1 == [s EXCEPT !.request_id = id]
         IN  IF s.process \notin s.alive
             THEN [ s |-> release(s1), wrote |-> FALSE,
                    out |-> OutRaise("MCPError",
                                     Msg("MCP server connection broken")) ]
             ELSE [ s |-> [s1 EXCEPT
                       !.written = [child |-> s.process, method |-> method,
                                    id |-> id, stage |-> s.shake[s.process]],
                       !.shake = Wrote(s.shake, s.process, method),
                       !.unanswered = Append(s.unanswered,
                                             [child |-> s.process, id |-> id]),
                       !.inRead = \A i \in 1 .. Len(s.decoded) :
                                      s.decoded[i].child # s.process],
                    wrote |-> TRUE, out |-> NoOut ]

\* a timeout message that reports the default ceiling whatever the session's
timeout_outcome_default(t) ==
    OutRaise("MCPError", MsgN("MCP request timed out after", DefaultTimeout))

\* asyncio.TimeoutError of wait_for
timeout_outcome(t) ==
    OutRaise("MCPError", MsgN("MCP request timed out after", t))

\* a response line was read
line_outcome(k) ==
    IF k = "malformed"
    THEN OutRaise("MCPError", Msg("Invalid JSON response from MCP server"))
    ELSE OutResp(k)

\* readline returned the empty string; stderr: the error stream held text
eof_outcome(s, stderr) ==
    IF s.process = 0
    THEN OutRaise("AttributeError",
                  Msg("'NoneType' object has no attribute 'stderr'"))
    ELSE IF stderr
         THEN OutRaise("MCPError", Msg("MCP server error"))
         ELSE OutRaise("MCPError", Msg("MCP server closed connection"))

\* --------------------------------------------------------------- call_tool
\* call_tool without its except clauses
call_tool_result_noexcept(o) ==
    IF o.kind = "raise"
    THEN Raised(o.exc, o.msg)
    ELSE IF o.reply \in {"result_content", "result_empty"}
         THEN Returned("result", Msg("text parts"))
         ELSE IF o.reply = "error_dict"
              THEN Returned("error", MsgA("MCP error", "message"))
              ELSE Raised("AttributeError",
                          Msg("object has no attribute 'get'"))

call_tool_result(o) ==
    IF o.kind = "raise"
    THEN Returned("error", Wrap("MCP communication failed", o.msg))
    ELSE CASE o.reply = "error_dict" ->
                  Returned("error", MsgA("MCP error", "message"))
           [] o.reply = "error_other" ->
                  Returned("error", Wrap("MCP communication failed",
                      Msg("'str' object has no attribute 'get'")))
           [] o.reply = "result_content" ->
                  Returned("result", Msg("text parts"))
           [] o.reply = "result_empty" ->
                  Returned("result", Msg("{}"))
           [] o.reply = "result_nondict" ->
                  Returned("error", Wrap("MCP communication failed",
                      Msg("'str' object has no attribute 'get'")))
           [] o.reply = "json_list" ->
                  Returned("error", Wrap("MCP communication failed",
                      Msg("'list' object has no attribute 'get'")))
           [] OTHER ->
                  Returned("error", Wrap("MCP communication failed",
                      Msg("argument of type 'int' is not iterable")))

\* -------------------------------------------------------------- list_tools
list_tools_result(o) ==
    IF o.kind = "raise"
    THEN Raised(o.exc, o.msg)
    ELSE CASE HasErrorField(o.reply) ->
                  Raised("MCPError", Msg("Failed to list tools"))
           [] o.reply \in {"result_content", "result_empty"} ->
                  Returned("tools", Msg("[]"))
           [] o.reply \in {"result_nondict", "json_list"} ->
                  Raised("AttributeError", Msg("object has no attribute 'get'"))
           [] OTHER ->
                  Raised("TypeError", Msg("argument of type 'int' is not iterable"))

\* health_check: list_tools succeeded, or any Exception became False
health_check_result(r) ==
    IF r.kind = "return" THEN Returned("bool", Msg("True"))
                         ELSE Returned("bool", Msg("False"))

\* ----------------------------------------------------------------- start()
\* the exception raised inside start()'s try block by the initialize
\* response, or "none"
initialize_failure(o) ==
    IF o.kind = "raise" THEN [exc |-> o.exc, msg |-> o.msg]
    ELSE IF HasErrorField(o.reply)
         THEN [exc |-> "MCPError", msg |-> Msg("MCP initialization failed")]
         ELSE IF o.reply = "json_scalar"
              THEN [exc |-> "TypeError",
                    msg |-> Msg("argument of type 'int' is not iterable")]
              ELSE [exc |-> "none", msg |-> NoMsg]

\* except Exception as e: await self.stop(); raise MCPError(...)
start_failed(c, s, m, e) ==
    LET r == stop(s, e)
    IN  Step(r.s, "done",
             IF r.exc = "none"
             THEN Raised("MCPError", Wrap("Failed to start MCP server", m))
             ELSE Raised(r.exc, NoMsg),
             NoOut, 0, 0)

\* except FileNotFoundError: raise MCPError(...)
command_not_found(c, s) ==
    Step(s, "done",
         Raised("MCPError", MsgA("MCP server command not found", "npx")),
         NoOut, 0, 0)

\* _send_notification once the lock is held, then self._initialized = True
send_notification_write(c, s, e) ==
    IF s.process = 0
    THEN start_failed(c, release(s), Msg("MCP server not running"), e)
    ELSE IF s.process \notin s.alive
         THEN start_failed(c, release(s),
                           Msg("MCP server connection broken"), e)
         ELSE Step([release(s) EXCEPT
                       !.written = [child |-> s.process,
                                    method |-> "notifications/initialized",
                                    id |-> 0, stage |-> s.shake[s.process]],
                       !.shake = Wrote(s.shake, s.process,
                                       "notifications/initialized"),
                       !.initialized = TRUE],
                   "done", Returned("None", NoMsg), NoOut, 0, 0)

\* await self._send_notification(...): take the lock or wait for it
send_notification(c, s, e) ==
    LET s1 == acquire(s, c)
    IN  IF s1.lockHolder = c
        THEN send_notification_write(c, s1, e)
        ELSE Step(s1, "await_lock_notify", NoRet, NoOut, 0, 0)

\* ------------------------------------------------- the callers' continuations
MethodOf(o) ==
    CASE o = "start" -> "initialize"
      [] o \in {"call_tool", "execute_async", "execute"} -> "tools/call"
      [] OTHER -> "tools/list"

\* what _execute_browser_tool_async makes of what call_tool hands back
browser_async_result(r) ==
    IF r.kind = "raise" /\ r.exc \in ExceptionClasses
    THEN Returned("error", Wrap("Browser tool execution failed",
                                r.val["exception"]))
    ELSE r

\* what _execute_browser_tool makes of it; late: future.result(timeout=60)
\* gave up before call_tool had returned, and the pool then waited for it
browser_result(r, late) ==
    IF late
    THEN Returned("error", Wrap("Browser tool execution failed",
                                Msg("TimeoutError")))
    ELSE browser_async_result(r)

\* the code of operation o that follows its _send_request, s being the
\* session after the lock was released
after_request(c, o, s, ot, e) ==
    CASE o = "call_tool" ->
             Step(s, "done", call_tool_result(ot), ot, 0, 0)
      [] o = "execute_async" ->
             Step(s, "done", browser_async_result(call_tool_result(ot)),
                  ot, 0, 0)
      [] o = "execute" ->
             Step(s, "done", browser_result(call_tool_result(ot), e = "late"),
                  ot, 0, 0)
      [] o = "list_tools" ->
             Step(s, "done", list_tools_result(ot), NoOut, 0, 0)
      [] o = "health_check" ->
             Step(s, "done", health_check_result(list_tools_result(ot)),
                  NoOut, 0, 0)
      [] OTHER ->
             LET f == initialize_failure(ot)
             IN  IF f.exc = "none"
                 THEN send_notification(c, s, e)
                 ELSE start_failed(c, s, f.msg, e)

\* _send_request once the lock is held
send_request_locked(c, o, s, e) ==
    LET w == send_request_write(s, c, MethodOf(o))
    IN  IF w.wrote
        THEN Step(w.s, "await_resp", NoRet, NoOut, s.process, w.s.request_id)
        ELSE after_request(c, o, w.s, w.out, e)

\* async with self._lock: take the lock or wait for it
send_request(c, o, s, e) ==
    LET s1 == acquire(s, c)
    IN  IF s1.lockHolder = c
        THEN send_request_locked(c, o, s1, e)
        ELSE Step(s1, "await_lock", NoRet, NoOut, 0, 0)

\* what subprocess.Popen does
PopenOutcomes == {"ok", "FileNotFoundError", "OSError"}

\* the children a task or the adapter can refer to at one time
Children == 1 .. (NumCallers + 1)

\* the children the adapter or a reading task still refers to
Referenced(p, rp) == {p} \cup {rp[d] : d \in Callers}

\* a new child gets the first name that nothing refers to
NewChild == CHOOSE n \in Children :
                /\ n \notin Referenced(process, rproc)
                /\ \A m \in 1 .. n - 1 : m \in Referenced(process, rproc)

\* start() up to its first suspension
start(c, s, po, e) ==
    IF is_running(s)
    THEN Step(s, "done", Returned("None", NoMsg), NoOut, 0, 0)
    ELSE CASE po = "FileNotFoundError" -> command_not_found(c, s)
           [] po = "OSError" -> start_failed(c, s, Msg("OSError"), e)
           [] OTHER ->
                  send_request(c, "start",
                      [s EXCEPT !.process = NewChild,
                                !.spawnedChild = NewChild,
                                !.shake = [s.shake EXCEPT
                                              ![NewChild] = "spawned"],
                                !.alive = s.alive \cup {NewChild}],
                      e)

\* health_check() up to its first suspension
health_check(c, s, e) ==
    IF ~is_running(s)
    THEN Step(s, "done", Returned("bool", Msg("False")), NoOut, 0, 0)
    ELSE send_request(c, "health_check", s, e)

\* stop() as a call of its own
stop_call(s, e) ==
    LET r == stop(s, e)
    IN  Step(r.s, "done",
             IF r.exc = "none" THEN Returned("None", NoMsg)
                               ELSE Raised(r.exc, NoMsg),
             NoOut, 0, 0)

\* ------------------------------------------------------------------ actions
\* the initialized flag at the time task c called its operation
IssuedInit(c) == IF pc[c] \in {"idle", "done"} THEN initialized
                                               ELSE issuedInit[c]

\* the cleanup errors that operation o can meet: only start() and stop()
\* run the cleanup; the blocking execute() can meet the timeout of its future
StopErrorsOf(o) ==
    CASE o \in {"start", "stop"} -> StopErrors
      [] o = "execute" -> {"none", "late"}
      [] OTHER -> {"none"}

NoCall == [by |-> 0, op |-> "none", ret |-> NoRet, out |-> NoOut,
           issuedInit |-> FALSE, procBefore |-> 0, initBefore |-> FALSE,
           req |-> 0]

\* the lines of q that belong to the children in S
Kept(q, S) == SelectSeq(q, LAMBDA x : x.child \in S)

Commit(c, o, t) ==
    /\ process' = t.s.process
    /\ initialized' = t.s.initialized
    /\ request_id' = t.s.request_id
    /\ lockHolder' = t.s.lockHolder
    /\ lockWaiters' = t.s.lockWaiters
    /\ lockBound' = t.s.lockBound
    /\ LET live == Referenced(t.s.process, [rproc EXCEPT ![c] = t.rproc])
       IN  /\ alive' = t.s.alive \cap live
           /\ unanswered' = Kept(t.s.unanswered, live)
           /\ childOut' = Kept(t.s.childOut, live)
           /\ decoded' = Kept(t.s.decoded, live)
           /\ orphans' = Kept(t.s.orphans, live)
           /\ shake' = [ch \in DOMAIN shake |->
                            IF ch \in live THEN t.s.shake[ch] ELSE "none"]
    /\ inRead' = t.s.inRead
    /\ pc' = [pc EXCEPT ![c] = t.pc]
    /\ op' = [op EXCEPT ![c] = IF t.pc = "done" THEN "none" ELSE o]
    /\ rproc' = [rproc EXCEPT ![c] = t.rproc]
    /\ req' = [req EXCEPT ![c] = t.req]
    /\ issuedInit' = [issuedInit EXCEPT ![c] =
           IF t.pc = "done" THEN FALSE ELSE IssuedInit(c)]
    /\ lastRet' = IF t.pc = "done"
                  THEN [by |-> c, op |-> o, ret |-> t.ret, out |-> t.out,
                        issuedInit |-> IssuedInit(c),
                        procBefore |-> process, initBefore |-> initialized,
                        req |-> req[c]]
                  ELSE NoCall
    /\ lastWrite' = t.s.written
    /\ lastSpawn' = t.s.spawnedChild
    /\ UNCHANGED << timeout, firstId, execVars >>

\* a request id is left for one more request: the tasks waiting for the
\* lock will each draw one
IdLeft ==
    request_id - firstId + Cardinality({d \in Callers : pc[d] = "await_lock"})
        < MaxReq

\* a call of _send_request that finds the lock free and no process draws no id
DrawsId == ~(lockHolder = 0 /\ process = 0)

\* a blocking execute() called by a task keeps the thread of the event loop
\* until it returns: no other task of the loop runs meanwhile
Runs(c) ==
    \A d \in Callers \ {c} : op[d] = "execute" => pc[d] \in {"idle", "done"}

\* task c calls an operation of the adapter; a task keeps nothing from one
\* call to the next, so the tasks that are between calls are interchangeable
\* and the one with the lowest number makes the next call
Begin(c) ==
    /\ pc[c] \in {"idle", "done"}
    /\ Runs(c)
    /\ \A d \in Callers : d < c => pc[d] \notin {"idle", "done"}

CallStart(c) ==
    /\ Begin(c)
    /\ \E t \in { start(c, Sess, po, e) :
                    po \in { x \in PopenOutcomes :
                               (x = "ok" /\ ~is_running(Sess)) => IdLeft },
                    e \in StopErrors } :
           Commit(c, "start", t)
    /\ UNCHANGED stopDone

CallStop(c) ==
    /\ Begin(c)
    /\ \E t \in { stop_call(Sess, e) : e \in StopErrors } :
           Commit(c, "stop", t)
    /\ stopDone' = (stopDone \/ initialized)

CallTool(c) ==
    /\ Begin(c)
    /\ DrawsId => IdLeft
    /\ Commit(c, "call_tool", send_request(c, "call_tool", Sess, "none"))
    /\ UNCHANGED stopDone

CallListTools(c) ==
    /\ Begin(c)
    /\ DrawsId => IdLeft
    /\ Commit(c, "list_tools", send_request(c, "list_tools", Sess, "none"))
    /\ UNCHANGED stopDone

CallHealthCheck(c) ==
    /\ Begin(c)
    /\ (is_running(Sess) /\ DrawsId) => IdLeft
    /\ Commit(c, "health_check", health_check(c, Sess, "none"))
    /\ UNCHANGED stopDone

\* the event loop resumes a task that waited for the lock and now holds it
LockGranted(c) ==
    /\ pc[c] \in {"await_lock", "await_lock_notify"}
    /\ lockHolder = c
    /\ Runs(c)
    /\ \E t \in { IF pc[c] = "await_lock"
                  THEN send_request_locked(c, op[c], Sess, e)
                  ELSE send_notification_write(c, Sess, e) :
                  e \in StopErrorsOf(op[c]) } :
           Commit(c, op[c], t)
    /\ UNCHANGED stopDone

\* index of the first line in q written by child ch, 0 if there is none
FirstOf(q, ch) ==
    IF \E i \in 1 .. Len(q) : q[i].child = ch
    THEN CHOOSE i \in 1 .. Len(q) :
             q[i].child = ch /\ \A j \in 1 .. i - 1 : q[j].child # ch
    ELSE 0

Without(q, i) == SubSeq(q, 1, i - 1) \o SubSeq(q, i + 1, Len(q))

\* the lines of q that belong to the other children
Others(q, ch) == SelectSeq(q, LAMBDA x : x.child # ch)

\* the reader of task c finds a line in the buffer of the text stream: it
\* began after the line was left there
Buffered(c) == ~inRead /\ FirstOf(decoded, rproc[c]) # 0

\* the readline of task c returned a line: the line that was in the buffer
\* when it began, or the first line of what the pipe holds, once the readers
\* that earlier requests left behind have read; the lines that came with it
\* stay in the buffer, in place of what was there
ReadLine(c) ==
    LET ch == rproc[c]
        j == FirstOf(decoded, ch)
        chunk == Kept(childOut, {ch})
        line == IF Buffered(c) THEN decoded[j] ELSE chunk[1]
        s == IF Buffered(c)
             THEN [Sess EXCEPT !.decoded = Without(decoded, j),
                               !.inRead = FALSE]
             ELSE [Sess EXCEPT !.childOut = Others(childOut, ch),
                               !.decoded = Others(decoded, ch) \o Tail(chunk),
                               !.inRead = FALSE]
    IN  /\ pc[c] = "await_resp"
        /\ Runs(c)
        /\ Buffered(c) \/ (chunk # << >> /\ FirstOf(orphans, ch) = 0)
        /\ \E t \in { after_request(c, op[c],
                          release([s EXCEPT !.shake =
                              ReadInit(shake, ch, op[c], line_outcome(k))]),
                          [line_outcome(k) EXCEPT !.id = line.id], e) :
                      k \in ReplyKinds, e \in StopErrorsOf(op[c]) } :
               Commit(c, op[c], t)
        /\ UNCHANGED stopDone

\* wait_for gave up after self.timeout seconds: the thread that runs readline
\* stays blocked in it, or drops the line it found in the buffer
ReadTimeout(c) ==
    LET s == IF Buffered(c)
             THEN [Sess EXCEPT
                      !.decoded = Without(decoded, FirstOf(decoded, rproc[c])),
                      !.inRead = FALSE]
             ELSE [Sess EXCEPT
                      !.orphans = Append(orphans, [child |-> rproc[c]]),
                      !.inRead = FALSE]
    IN  /\ pc[c] = "await_resp"
        /\ Runs(c)
        /\ \E t \in { after_request(c, op[c], release(s),
                                    timeout_outcome(timeout), e) :
                      e \in StopErrorsOf(op[c]) } :
               Commit(c, op[c], t)
        /\ UNCHANGED stopDone

\* the child's stdout is closed and empty
ReadEOF(c) ==
    /\ pc[c] = "await_resp"
    /\ Runs(c)
    /\ rproc[c] \notin alive
    /\ FirstOf(childOut, rproc[c]) = 0
    /\ ~Buffered(c)
    /\ \E t \in { after_request(c, op[c],
                                release([Sess EXCEPT !.inRead = FALSE]),
                                eof_outcome(Sess, stderr), e) :
                  stderr \in BOOLEAN, e \in StopErrorsOf(op[c]) } :
           Commit(c, op[c], t)
    /\ UNCHANGED stopDone

\* a reader thread that a timed-out request left behind reads what the pipe
\* holds: its line is dropped, the lines that came with it stay in the buffer
OrphanRead(ch) ==
    LET chunk == Kept(childOut, {ch})
    IN  /\ FirstOf(orphans, ch) # 0
        /\ chunk # << >>
        /\ childOut' = Others(childOut, ch)
        /\ decoded' = Others(decoded, ch) \o Tail(chunk)
        /\ orphans' = Without(orphans, FirstOf(orphans, ch))
        /\ lastRet' = NoCall
        /\ lastWrite' = NoWrite
        /\ lastSpawn' = 0
        /\ UNCHANGED << timeout, process, initialized, request_id,
                        lockHolder, lockWaiters, lockBound, alive,
                        unanswered, inRead,
                        firstId, pc, op, rproc, req, issuedInit, stopDone,
                        shake, execVars >>

\* a running child answers the oldest request it has not answered; what the
\* line holds is settled when it is read
ChildReply(ch) ==
    LET i == FirstOf(unanswered, ch)
    IN  /\ ch \in alive
        /\ i # 0
        /\ childOut' = Append(childOut,
                              [child |-> ch, id |-> unanswered[i].id])
        /\ unanswered' = Without(unanswered, i)
        /\ lastRet' = NoCall
        /\ lastWrite' = NoWrite
        /\ lastSpawn' = 0
        /\ UNCHANGED << timeout, process, initialized, request_id,
                        lockHolder, lockWaiters, lockBound, alive, decoded,
                        orphans,
                        inRead, firstId, pc, op, rproc, req,
                        issuedInit, stopDone, shake, execVars >>

\* a running child exits on its own
ChildExit(ch) ==
    /\ ch \in alive
    /\ alive' = alive \ {ch}
    /\ lastRet' = NoCall
    /\ lastWrite' = NoWrite
    /\ lastSpawn' = 0
    /\ UNCHANGED << timeout, process, initialized, request_id, lockHolder,
                    lockWaiters, lockBound, unanswered, childOut, decoded,
                    orphans,
                    inRead, firstId, pc, op, rproc, req,
                    issuedInit, stopDone, shake, execVars >>

\* the providers construct PuppeteerMCPAdapter(working_dir=...)
InitAdapter ==
    /\ timeout = PuppeteerTimeout
    /\ process = 0
    /\ initialized = FALSE
    /\ request_id = 0
    /\ lockHolder = 0
    /\ lockWaiters = << >>
    /\ lockBound = FALSE
    /\ alive = {}
    /\ unanswered = << >>
    /\ childOut = << >>
    /\ decoded = << >>
    /\ orphans = << >>
    /\ inRead = FALSE
    /\ firstId = 0
    /\ pc = [c \in Callers |-> "idle"]
    /\ op = [c \in Callers |-> "none"]
    /\ rproc = [c \in Callers |-> 0]
    /\ req = [c \in Callers |-> 0]
    /\ issuedInit = [c \in Callers |-> FALSE]
    /\ lastRet = NoCall
    /\ lastWrite = NoWrite
    /\ lastSpawn = 0
    /\ stopDone = FALSE
    /\ shake = [ch \in Children |-> "none"]

NextMCP ==
    \/ \E c \in Callers : CallStart(c)
    \/ \E c \in Callers : CallStop(c)
    \/ \E c \in Callers : CallTool(c)
    \/ \E c \in Callers : CallListTools(c)
    \/ \E c \in Callers : CallHealthCheck(c)
    \/ \E c \in Callers : LockGranted(c)
    \/ \E c \in Callers : ReadLine(c)
    \/ \E c \in Callers : ReadTimeout(c)
    \/ \E c \in Callers : ReadEOF(c)
    \/ \E ch \in Children : OrphanRead(ch)
    \/ \E ch \in Children : ChildReply(ch)
    \/ \E ch \in Children : ChildExit(ch)

\* ============================================================ ToolExecutor
\* ------------------------------------------------------------------ strings
\* a string is a sequence of characters; NL is the line feed, CR the carriage
\* return, NonAscii a character that UTF-8 encodes in two bytes and BIN a
\* byte that is not UTF-8. A file holds the characters its bytes encode
NL  == "NL"
CR  == "CR"
BIN == "BIN"
NonAscii == "e-acute"

\* the bytes of the UTF-8 encoding of a string
RECURSIVE ByteLen(_)
ByteLen(s) ==
    IF s = << >> THEN 0
    ELSE (IF Head(s) = NonAscii THEN 2 ELSE 1) + ByteLen(Tail(s))

\* Path.read_text decodes and reads every line ending (CR LF, CR) as NL
RECURSIVE read_text(_)
read_text(raw) ==
    IF raw = << >> THEN << >>
    ELSE IF Head(raw) = CR
         THEN << NL >> \o read_text(IF Len(raw) > 1 /\ raw[2] = NL
                                    THEN Tail(Tail(raw)) ELSE Tail(raw))
         ELSE << Head(raw) >> \o read_text(Tail(raw))


IsPrefix(p, s) == Len(p) <= Len(s) /\ SubSeq(s, 1, Len(p)) = p

\* str.splitlines()
RECURSIVE SplitAcc(_, _, _)
SplitAcc(s, cur, acc) ==
    IF s = << >>
    THEN IF cur = << >> THEN acc ELSE Append(acc, cur)
    ELSE IF Head(s) = NL
         THEN SplitAcc(Tail(s), << >>, Append(acc, cur))
         ELSE SplitAcc(Tail(s), Append(cur, Head(s)), acc)

\* a variant of splitlines that counts an empty line after a last line feed
splitlines_keeplast(s) ==
    IF s # << >> /\ s[Len(s)] = NL
    THEN Append(SplitAcc(s, << >>, << >>), << >>)
    ELSE SplitAcc(s, << >>, << >>)

splitlines(s) == SplitAcc(s, << >>, << >>)

\* sep.join(parts)
RECURSIVE join(_, _)
join(sep, parts) ==
    IF parts = << >> THEN << >>
    ELSE IF Len(parts) = 1 THEN parts[1]
         ELSE parts[1] \o sep \o join(sep, Tail(parts))

\* the characters str.strip() takes for white space
IsSpace(ch) == ch \in {" ", NL, CR}

\* str.strip()
RECURSIVE lstrip(_)
lstrip(s) ==
    IF s # << >> /\ IsSpace(Head(s)) THEN lstrip(Tail(s)) ELSE s

RECURSIVE rstrip(_)
rstrip(s) ==
    IF s # << >> /\ IsSpace(s[Len(s)])
    THEN rstrip(SubSeq(s, 1, Len(s) - 1)) ELSE s

strip(s) == rstrip(lstrip(s))

\* a page end that takes the limit for the index of the last line
page_end_index(first, limit, total) ==
    IF limit # << >> THEN limit[1] ELSE total

\* end = start + limit if limit else total_lines
page_end(first, limit, total) ==
    IF limit # << >> /\ limit[1] # 0 THEN first + limit[1] ELSE total

\* str.count(old): occurrences that do not overlap
RECURSIVE count(_, _)
count(s, old) ==
    IF old = << >> THEN Len(s) + 1
    ELSE IF Len(s) < Len(old) THEN 0
    ELSE IF IsPrefix(old, s)
         THEN 1 + count(SubSeq(s, Len(old) + 1, Len(s)), old)
         ELSE count(Tail(s), old)

\* str.replace(old, new, k) for a non-empty old; k < 0 replaces all
RECURSIVE replace_nonempty(_, _, _, _)
replace_nonempty(s, old, new, k) ==
    IF k = 0 \/ Len(s) < Len(old) THEN s
    ELSE IF IsPrefix(old, s)
         THEN new \o replace_nonempty(SubSeq(s, Len(old) + 1, Len(s)),
                                      old, new, k - 1)
         ELSE << Head(s) >> \o replace_nonempty(Tail(s), old, new, k)

\* str.replace("", new, k): new goes before every character and at the end
RECURSIVE replace_empty(_, _, _)
replace_empty(s, new, k) ==
    IF k = 0 THEN s
    ELSE IF s = << >> THEN new
    ELSE new \o << Head(s) >> \o replace_empty(Tail(s), new, k - 1)

replace(s, old, new, k) ==
    IF old = << >> THEN replace_empty(s, new, k)
                   ELSE replace_nonempty(s, old, new, k)

\* -------------------------------------------------------------- file system
\* a canonical path is the sequence of its components below "/"
project_dir == << "proj" >>

\* the symbolic links: proj/lnk points to /etc, outside the project
links == (<< "proj", "lnk" >> :> << "etc" >>)

Parent(p) == IF p = << >> THEN << >> ELSE SubSeq(p, 1, Len(p) - 1)

\* the proper ancestors of p
Ancestors(p) == { SubSeq(p, 1, i) : i \in 0 .. Len(p) - 1 }

IsUnder(p, root) == IsPrefix(root, p)

\* os.path.realpath, not strict: ".." drops the last component of what is
\* resolved so far, a symbolic link is replaced by its target, a name that
\* does not exist is kept
RECURSIVE realpath(_, _)
realpath(cur, rest) ==
    IF rest = << >> THEN cur
    ELSE LET n == Head(rest)
             q == Append(cur, n)
         IN  IF n = ".." THEN realpath(Parent(cur), Tail(rest))
             ELSE IF q \in DOMAIN links THEN realpath(links[q], Tail(rest))
             ELSE realpath(q, Tail(rest))

\* (self.project_dir / path).resolve(): an absolute path replaces the
\* project directory
resolve(path) ==
    IF path.abs THEN realpath(<< >>, path.comps)
                ELSE realpath(project_dir, path.comps)

\* a variant of _validate_path that resolves and does not check
validate_path_unchecked(path) == [ok |-> TRUE, resolved |-> resolve(path)]

\* _validate_path: the resolved path, or SecurityError
validate_path(path) ==
    [ok |-> IsUnder(resolve(path), project_dir), resolved |-> resolve(path)]

SecurityError(path) ==
    Raised("SecurityError", MsgP("Path escape attempt blocked", path))

exists(f, p)  == p \in f.dirs \/ p \in DOMAIN f.files
is_file(f, p) == p \in DOMAIN f.files
is_dir(f, p)  == p \in f.dirs

\* what one tool call hands back and leaves behind: value or exception, the
\* file system afterwards, the commands it spawned, the verdicts the command
\* policy gave, what shutil.which("rg") found, what subprocess.run did with
\* a shell command, and where execute sent the call: to a branch of its own
\* dispatch ("local"), to the adapter's call_tool ("rpc") or nowhere ("none")
Done(r, f, sp) ==
    [ret |-> r, fs |-> f, spawned |-> sp, policy |-> << >>, rg |-> << >>,
     ran |-> << >>, route |-> "local"]

\* mapping.get(key): the value in a one-element sequence, or << >> for None
Get(args, k) == IF k \in DOMAIN args THEN << args[k] >> ELSE << >>

KeyError(k) == Raised("KeyError", MsgA("", k))

\* ---------------------------------------------------------------- read_file
read_file(f, path, offset, limit) ==
    LET v == validate_path(path)
        p == v.resolved
    IN  IF ~v.ok THEN Done(SecurityError(path), f, << >>)
        ELSE IF ~exists(f, p)
             THEN Done(Returned("error", MsgP("File not found", path)), f, << >>)
        ELSE IF ~is_file(f, p)
             THEN Done(Returned("error", MsgP("Not a file", path)), f, << >>)
        ELSE IF \E i \in 1 .. Len(f.files[p]) : f.files[p][i] = BIN
             THEN Done(Returned("error", MsgP("Cannot read binary file", path)),
                       f, << >>)
        ELSE IF offset # << >> /\ offset[1] < 0
             THEN Done(Returned("error", Msg("Offset must be zero or positive")),
                       f, << >>)
        ELSE IF limit # << >> /\ limit[1] < 1
             THEN Done(Returned("error", Msg("Limit must be positive")), f, << >>)
        ELSE IF offset = << >> /\ limit = << >>
             THEN Done(Returned("result", MsgB("", read_text(f.files[p]))),
                       f, << >>)
        ELSE LET lines == splitlines(read_text(f.files[p]))
                 total == Len(lines)
                 first == IF offset = << >> THEN 0 ELSE offset[1]
                 end   == page_end(first, limit, total)
                 last  == IF end < total THEN end ELSE total
             IN  IF total = 0
                 THEN IF first = 0
                      THEN Done(Returned("result",
                               Msg("[lines 0-0 of 0] (file is empty)")), f, << >>)
                      ELSE Done(Returned("error",
                               Msg("Offset beyond end of file (file is empty)")),
                               f, << >>)
                 ELSE IF first >= total
                      THEN Done(Returned("error",
                               MsgB("Offset beyond end of file",
                                    << first, total >>)), f, << >>)
                      ELSE Done(Returned("result",
                               MsgB("lines",
                                    << first + 1, last, total,
                                       join(<< NL >>,
                                            SubSeq(lines, first + 1, last)) >>)),
                               f, << >>)

\* --------------------------------------------------------------- write_file
\* Path.mkdir(parents=True, exist_ok=True) fails on an ancestor that is a file
mkdir_fails(f, p) == \E a \in Ancestors(p) \cup {p} : is_file(f, a)

write_file(f, path, content) ==
    LET v == validate_path(path)
        p == v.resolved
    IN  IF ~v.ok THEN Done(SecurityError(path), f, << >>)
        ELSE IF mkdir_fails(f, Parent(p))
             THEN Done(Raised("OSError", Msg("File exists")), f, << >>)
        ELSE LET f1 == [f EXCEPT !.dirs = f.dirs \cup Ancestors(p)]
             IN  IF is_dir(f1, p)
                 THEN Done(Raised("OSError", Msg("Is a directory")), f1, << >>)
                 ELSE Done(Returned("result",
                               [MsgP("Successfully wrote", path)
                                   EXCEPT !.n = Len(content)]),
                           [f1 EXCEPT !.files =
                               [q \in DOMAIN f.files \cup {p} |->
                                   IF q = p THEN content ELSE f.files[q]]],
                           << >>)

\* ---------------------------------------------------------------- edit_file
\* a variant of the preview that shows the whole of old_string
preview_whole(old_string) == old_string

\* old_string[:100] + ("..." if len(old_string) > 100 else "")
preview(old_string) ==
    IF Len(old_string) > PreviewLen
    THEN SubSeq(old_string, 1, PreviewLen) \o << ".", ".", "." >>
    ELSE old_string

edit_file(f, path, old_string, new_string, replace_all) ==
    LET v == validate_path(path)
        p == v.resolved
    IN  IF ~v.ok THEN Done(SecurityError(path), f, << >>)
        ELSE IF ~exists(f, p)
             THEN Done(Returned("error", MsgP("File not found", path)), f, << >>)
        ELSE IF is_dir(f, p)
             THEN Done(Raised("OSError", Msg("Is a directory")), f, << >>)
        ELSE IF \E i \in 1 .. Len(f.files[p]) : f.files[p][i] = BIN
             THEN Done(Raised("UnicodeDecodeError", Msg("invalid start byte")),
                       f, << >>)
        ELSE LET content == read_text(f.files[p])
                 occurrences == count(content, old_string)
             IN  IF occurrences = 0
                 THEN Done(Returned("error",
                               MsgB("String not found in file",
                                    preview(old_string))),
                           f, << >>)
                 ELSE Done(Returned("result",
                               [MsgP("Replaced", path) EXCEPT
                                   !.n = IF replace_all THEN occurrences ELSE 1]),
                           [f EXCEPT !.files[p] =
                               replace(content, old_string, new_string,
                                       IF replace_all THEN 0 - 1 ELSE 1)],
                           << >>)

\* -------------------------------------------------------------- glob_search
\* a pattern is a sequence of segments, each "*", ".." or a name, below the
\* base directory or, when absolute, below "/"
Patterns ==
    { [abs |-> FALSE, segs |-> g] : g \in { << "*" >>, << "a" >>, << ".." >> } }

\* os.path.lexists
lexists(f, p) == exists(f, p) \/ p \in DOMAIN links

\* the names a directory lists
listdir(f, dir) ==
    { q[Len(q)] : q \in { r \in f.dirs \cup DOMAIN f.files \cup DOMAIN links :
                            r # << >> /\ Parent(r) = dir } }

\* the entries of glob for the segments segs below the entry sofar of top
RECURSIVE expand(_, _, _, _)
expand(f, top, segs, sofar) ==
    IF segs = << >> THEN { sofar }
    ELSE LET here == realpath(top, sofar)
             seg  == Head(segs)
             names ==
                 CASE seg = "*"  -> IF is_dir(f, here) THEN listdir(f, here)
                                                       ELSE {}
                   [] seg = ".." -> IF is_dir(f, here) THEN { ".." } ELSE {}
                   [] OTHER      -> IF lexists(f, Append(here, seg))
                                    THEN { seg } ELSE {}
         IN  UNION { expand(f, top, Tail(segs), Append(sofar, n)) :
                       n \in names }

\* the entries glob.iglob(pattern, root_dir=base) yields: paths below base,
\* or absolute paths for an absolute pattern
iglob(f, base, pattern) ==
    { [abs |-> pattern.abs, comps |-> c] :
        c \in expand(f, IF pattern.abs THEN << >> ELSE base, pattern.segs,
                     << >>) }

\* the order of str on the names of the model: "." comes before the letters
NameRank == (".." :> 0) @@ ("a" :> 1) @@ ("etc" :> 2) @@ ("lnk" :> 3)
                @@ ("proj" :> 4)

\* p < q as strings: at the first difference the smaller name decides, and a
\* path comes before the paths it is a prefix of
PathLess(p, q) ==
    \/ Len(p) < Len(q) /\ SubSeq(q, 1, Len(p)) = p
    \/ \E i \in 1 .. Len(p) :
           /\ i <= Len(q)
           /\ SubSeq(p, 1, i - 1) = SubSeq(q, 1, i - 1)
           /\ NameRank[p[i]] < NameRank[q[i]]

\* the members of S from the smallest to the greatest
RECURSIVE Ascending(_)
Ascending(S) ==
    IF S = {} THEN << >>
    ELSE LET least == CHOOSE x \in S : \A y \in S \ {x} : PathLess(x, y)
         IN  << least >> \o Ascending(S \ {least})

Reverse(q) == [i \in 1 .. Len(q) |-> q[Len(q) + 1 - i]]

\* a variant of sorted(set(matches)) that leaves the list as it was collected
unsorted(matches) == matches

\* sorted(set(matches))
sorted_set(matches) == Ascending({ matches[i] : i \in DOMAIN matches })

\* _glob_search; rev: the directory listing came in descending order
glob_search(f, pattern, path, rev) ==
    LET v == IF path = << >> THEN [ok |-> TRUE, resolved |-> project_dir]
                             ELSE validate_path(path[1])
        base == v.resolved
        listed == Ascending({ e.comps : e \in iglob(f, base, pattern) })
        entries == IF rev THEN Reverse(listed) ELSE listed
        resolved == [i \in 1 .. Len(entries) |->
                        realpath(IF pattern.abs THEN << >> ELSE base,
                                 entries[i])]
        inside == SelectSeq(resolved, LAMBDA q : IsUnder(q, project_dir))
        matches == [i \in 1 .. Len(inside) |->
                       SubSeq(inside[i], Len(project_dir) + 1, Len(inside[i]))]
    IN  IF ~v.ok THEN Done(SecurityError(path[1]), f, << >>)
        ELSE IF ~exists(f, base)
             THEN Done(Returned("error", Msg("Directory not found")), f, << >>)
        ELSE IF ~is_dir(f, base)
             THEN Done(Returned("error", Msg("Not a directory")), f, << >>)
        ELSE IF matches = << >>
             THEN Done(Returned("result", Msg("No matches found")), f, << >>)
             ELSE Done(Returned("result", MsgB("matches", sorted_set(matches))),
                       f, << >>)

\* -------------------------------------------------------------- grep_search
\* what running rg can give: exit code, the text of stdout, stderr
RgRuns == [rc : {0, 1, 2}, stdout : {<< >>, << "a", NL, "b", NL >>},
           stderr : {"", "warning"}]

\* the line that stands for cut output
TruncationMarker == << "... (results truncated)" >>

\* a test for more lines that also holds when the window ends at the last
\* line
more_lines_inclusive(head_limit, total, end) ==
    head_limit # << >> /\ head_limit[1] # 0 /\ total >= end

\* head_limit and len(lines) > end
more_lines(head_limit, total, end) ==
    head_limit # << >> /\ head_limit[1] # 0 /\ total > end

OutputModes == {"content", "files_with_matches", "count"}

\* the code of _grep_search that follows subprocess.run
grep_output(run, head_limit, offset) ==
    LET stdout == strip(run.stdout)
        lines == splitlines(stdout)
        first == IF offset = << >> \/ offset[1] < 0 THEN 0 ELSE offset[1]
        end   == page_end(first, head_limit, Len(lines))
        last  == IF end < Len(lines) THEN end ELSE Len(lines)
        sliced == SubSeq(lines, first + 1, last)
        output == join(<< NL >>,
                       IF more_lines(head_limit, Len(lines), end)
                       THEN Append(sliced, TruncationMarker) ELSE sliced)
        noted == IF run.stderr # ""
                 THEN output \o << NL, "[stderr]: ", run.stderr >>
                 ELSE output
    IN  IF run.rc \notin {0, 1}
        THEN Returned("error", IF run.stderr # ""
                               THEN Msg(run.stderr)
                               ELSE MsgN("rg failed with exit code", run.rc))
        ELSE IF run.rc = 1 /\ stdout = << >>
             THEN Returned("result", Msg("No matches found"))
        ELSE IF first >= Len(lines)
             THEN Returned("error", Msg("Offset skips all output"))
        ELSE IF noted = << >>
             THEN Returned("result", Msg("(no output)"))
             ELSE Returned("result", MsgB("output", noted))

\* a variant of _grep_search that does not look at head_limit and offset
\* before it runs rg
grep_search_unchecked(f, path, output_mode, head_limit, offset, rg, run) ==
    LET target == IF path = << >> THEN [abs |-> FALSE, comps |-> << >>]
                                  ELSE path[1]
        v == validate_path(target)
        mode == IF output_mode = << >> \/ output_mode[1] = ""
                THEN "files_with_matches" ELSE output_mode[1]
        d == IF ~rg
             THEN Done(Returned("error", Msg("ripgrep (rg) is not installed")),
                       f, << >>)
             ELSE IF ~v.ok THEN Done(SecurityError(target), f, << >>)
             ELSE IF mode \notin OutputModes
             THEN Done(Returned("error", MsgA("Invalid output_mode", mode)),
                       f, << >>)
             ELSE [Done(grep_output(run, head_limit, offset), f, << "rg" >>)
                     EXCEPT !.ran = << run >>]
    IN  [d EXCEPT !.rg = << rg >>]

\* _grep_search: rg is what shutil.which finds, run what rg does when run
grep_search(f, path, output_mode, head_limit, offset, rg, run) ==
    LET target == IF path = << >> THEN [abs |-> FALSE, comps |-> << >>]
                                  ELSE path[1]
        v == validate_path(target)
        mode == IF output_mode = << >> \/ output_mode[1] = ""
                THEN "files_with_matches" ELSE output_mode[1]
        d == IF ~rg
             THEN Done(Returned("error", Msg("ripgrep (rg) is not installed")),
                       f, << >>)
             ELSE IF head_limit # << >> /\ head_limit[1] < 1
             THEN Done(Returned("error", Msg("head_limit must be positive")),
                       f, << >>)
             ELSE IF offset # << >> /\ offset[1] < 0
             THEN Done(Returned("error", Msg("offset must be zero or positive")),
                       f, << >>)
             ELSE IF ~v.ok THEN Done(SecurityError(target), f, << >>)
             ELSE IF mode \notin OutputModes
             THEN Done(Returned("error", MsgA("Invalid output_mode", mode)),
                       f, << >>)
             ELSE [Done(grep_output(run, head_limit, offset), f, << "rg" >>)
                     EXCEPT !.ran = << run >>]
    IN  [d EXCEPT !.rg = << rg >>]

\* --------------------------------------------------------------------- bash
\* what validate_bash_command can answer
Verdicts == { [allowed |-> TRUE, reason |-> ""],
              [allowed |-> FALSE, reason |-> "not in the allowlist"],
              [allowed |-> FALSE, reason |-> "could not parse command"] }

\* what subprocess.run can do with a command: run it to its end and decode
\* what it wrote, run it to its end and fail to decode what it wrote, give
\* up after the time limit, or fail to start the shell
BashRuns ==
    [kind : {"completed"}, rc : {0, 1}, stdout : {"", "out"},
     stderr : {"", "err"}]
    \cup { [kind |-> "UnicodeDecodeError", rc |-> c, stdout |-> "",
            stderr |-> ""] : c \in {0, 1} }
    \cup { [kind |-> k, rc |-> 0, stdout |-> "", stderr |-> ""] :
             k \in {"TimeoutExpired", "OSError"} }

\* the part of _run_bash that runs the command
bash_run(f, command, run) ==
    LET d ==
          CASE run.kind = "TimeoutExpired" ->
                 Done(Returned("error",
                               Msg("Command timed out after 5 minutes")),
                      f, << command >>)
            [] run.kind = "OSError" ->
                 Done(Returned("error", Wrap("Command execution failed",
                                             Msg("OSError"))), f, << >>)
            [] run.kind = "UnicodeDecodeError" ->
                 Done(Returned("error", Wrap("Command execution failed",
                                             Msg("invalid start byte"))),
                      f, << command >>)
            [] OTHER ->
                 Done(Returned("result",
                        IF run.stdout = "" /\ run.stderr = "" /\ run.rc = 0
                        THEN Msg("(no output)")
                        ELSE MsgB("output", << run.stdout, run.stderr,
                                  IF run.rc # 0 THEN << run.rc >>
                                                ELSE << >> >>)),
                      f, << command >>)
    IN  [d EXCEPT !.ran = << run >>]

\* a variant of _run_bash that runs the command before it asks the policy
run_bash_first(f, command, verdict, run) ==
    LET d == bash_run(f, command, run)
    IN  IF ~verdict.allowed
        THEN [Done(Returned("error", MsgA("Command blocked", verdict.reason)),
                   f, d.spawned) EXCEPT !.policy = << verdict >>]
        ELSE [d EXCEPT !.policy = << verdict >>]

\* _run_bash
run_bash(f, command, verdict, run) ==
    IF ~verdict.allowed
    THEN [Done(Returned("error", MsgA("Command blocked", verdict.reason)),
               f, << >>) EXCEPT !.policy = << verdict >>]
    ELSE [bash_run(f, command, run) EXCEPT !.policy = << verdict >>]

\* ------------------------------------------------------------ browser tools
BrowserTools == { "puppeteer_connect_active_tab", "puppeteer_navigate",
                  "puppeteer_screenshot", "puppeteer_click", "puppeteer_fill",
                  "puppeteer_select", "puppeteer_hover", "puppeteer_evaluate" }

\* a variant of _is_browser_tool that does not strip the prefix
is_browser_tool_exact(tool_name) ==
    ~tool_name.prefixed /\ tool_name.name \in BrowserTools

\* a tool name: name, with the prefix mcp__puppeteer__ in front or not
is_browser_tool(tool_name) == tool_name.name \in BrowserTools

\* the ways one request cycle of the adapter can end
RequestOutcomes ==
    { OutRaise("MCPError", Msg("MCP server not running")),
      OutRaise("MCPError", Msg("MCP server connection broken")),
      OutRaise("MCPError", Msg("MCP server error")),
      OutRaise("MCPError", Msg("MCP server closed connection")),
      timeout_outcome(timeout) }
    \cup { line_outcome(k) : k \in ReplyKinds }

NotEnabled == Returned("error", Msg("Browser tools are not enabled"))

\* _execute_browser_tool_async
execute_browser_tool_async(f, adapter, o) ==
    IF ~adapter THEN [Done(NotEnabled, f, << >>) EXCEPT !.route = "none"]
    ELSE LET r == call_tool_result(o)
         IN  [Done(IF r.kind = "raise" /\ r.exc \in ExceptionClasses
                   THEN Returned("error", Wrap("Browser tool execution failed",
                                               r.val["exception"]))
                   ELSE r, f, << >>) EXCEPT !.route = "rpc"]

\* _execute_browser_tool; late: future.result(timeout=60) gave up
execute_browser_tool(f, adapter, o, late) ==
    IF ~adapter THEN [Done(NotEnabled, f, << >>) EXCEPT !.route = "none"]
    ELSE IF late
         THEN [Done(Returned("error", Wrap("Browser tool execution failed",
                                           Msg("TimeoutError"))), f, << >>)
                   EXCEPT !.route = "rpc"]
         ELSE execute_browser_tool_async(f, adapter, o)

\* ------------------------------------------------------------------ execute
StdTools == {"read_file", "write_file", "edit_file", "glob_search",
             "grep_search", "bash"}

\* the first of the keys that the mapping lacks, or ""
FirstMissing(args, keys) ==
    IF \A i \in 1 .. Len(keys) : keys[i] \in DOMAIN args THEN ""
    ELSE keys[CHOOSE i \in 1 .. Len(keys) :
                  /\ keys[i] \notin DOMAIN args
                  /\ \A j \in 1 .. i - 1 : keys[j] \in DOMAIN args]

RequiredKeys(name) ==
    CASE name = "read_file"   -> << "path" >>
      [] name = "write_file"  -> << "path", "content" >>
      [] name = "edit_file"   -> << "path", "old_string", "new_string" >>
      [] name = "glob_search" -> << "pattern" >>
      [] name = "grep_search" -> << "pattern" >>
      [] name = "bash"        -> << "command" >>
      [] OTHER                -> << >>

\* what the environment answers during one call: whether rg is installed
\* and what it does, the policy's verdict and what the command does, how the
\* adapter's request cycle ends and whether the wait for it gave up, and
\* whether the directories list their names in descending order
QuietEnv == [ rg |-> TRUE,
              run |-> [rc |-> 0, stdout |-> << >>, stderr |-> ""],
              verdict |-> [allowed |-> TRUE, reason |-> ""],
              bash |-> [kind |-> "completed", rc |-> 0, stdout |-> "",
                        stderr |-> ""],
              cycle |-> OutResp("result_content"),
              late |-> FALSE,
              rev |-> FALSE ]

\* the answers that matter to a call of the tool
EnvsOf(tool_name) ==
    CASE tool_name.name = "grep_search" ->
             { [QuietEnv EXCEPT !.rg = b, !.run = r] :
                 b \in BOOLEAN, r \in RgRuns }
      [] tool_name.name = "bash" ->
             { [QuietEnv EXCEPT !.verdict = v, !.bash = r] :
                 v \in Verdicts, r \in BashRuns }
      [] tool_name.name = "glob_search" ->
             { [QuietEnv EXCEPT !.rev = b] : b \in BOOLEAN }
      [] tool_name.name \in BrowserTools ->
             { [QuietEnv EXCEPT !.cycle = o, !.late = b] :
                 o \in RequestOutcomes, b \in BOOLEAN }
      [] OTHER -> { QuietEnv }

\* the body of execute's try statement
dispatch(f, tool_name, args, rg, run, verdict, bashrun, rev) ==
    LET name == tool_name.name
        miss == FirstMissing(args, RequiredKeys(name))
    IN  IF tool_name.prefixed \/ name \notin StdTools
        THEN [Done(Returned("error", MsgA("Unknown tool", name)), f, << >>)
                  EXCEPT !.route = "none"]
        ELSE IF miss # "" THEN Done(KeyError(miss), f, << >>)
        ELSE CASE name = "read_file" ->
                      read_file(f, args["path"], Get(args, "offset"),
                                Get(args, "limit"))
               [] name = "write_file" ->
                      write_file(f, args["path"], args["content"])
               [] name = "edit_file" ->
                      edit_file(f, args["path"], args["old_string"],
                                args["new_string"],
                                IF "replace_all" \in DOMAIN args
                                THEN args["replace_all"] ELSE FALSE)
               [] name = "glob_search" ->
                      glob_search(f, args["pattern"], Get(args, "path"), rev)
               [] name = "grep_search" ->
                      grep_search(f, Get(args, "path"),
                                  Get(args, "output_mode"),
                                  Get(args, "head_limit"),
                                  Get(args, "offset"), rg, run)
               [] OTHER ->
                      run_bash(f, args["command"], verdict, bashrun)

\* a variant of execute's handlers with the SecurityError clause alone
execute_except_security(d) ==
    IF d.ret.kind = "raise" /\ d.ret.exc = "SecurityError"
    THEN [d EXCEPT !.ret = Returned("error", Wrap("Security violation",
                                                  d.ret.val["exception"]))]
    ELSE d

\* except SecurityError / except Exception of execute
execute_except(d) ==
    IF d.ret.kind # "raise" THEN d
    ELSE IF d.ret.exc = "SecurityError"
         THEN [d EXCEPT !.ret = Returned("error", Wrap("Security violation",
                                                       d.ret.val["exception"]))]
    ELSE IF d.ret.exc \in ExceptionClasses
         THEN [d EXCEPT !.ret = Returned("error", Wrap("Tool execution failed",
                                                       d.ret.val["exception"]))]
    ELSE d

\* execute
execute(f, adapter, tool_name, args, e) ==
    IF is_browser_tool(tool_name)
    THEN execute_browser_tool(f, adapter, e.cycle, e.late)
    ELSE execute_except(dispatch(f, tool_name, args, e.rg, e.run, e.verdict,
                                 e.bash, e.rev))

\* execute_async
execute_async(f, adapter, tool_name, args, e) ==
    IF is_browser_tool(tool_name)
    THEN execute_browser_tool_async(f, adapter, e.cycle)
    ELSE execute(f, adapter, tool_name, args, e)

\* the SDK wrappers turn the mapping into text
sdk_text(r) ==
    IF r.kind # "return" THEN r
    ELSE IF "error" \in DOMAIN r.val
         THEN Returned("str", Wrap("Error", r.val["error"]))
         ELSE Returned("str", r.val["result"])

\* the SDK tool read_file: offset is 0 and limit None unless the caller gives
\* them, and both go to execute("read_file", ...)
sdk_read_file(f, adapter, args, e) ==
    LET a == ("path" :> args["path"])
               @@ ("offset" :> IF "offset" \in DOMAIN args THEN args["offset"]
                                                            ELSE 0)
               @@ (IF "limit" \in DOMAIN args THEN "limit" :> args["limit"]
                                               ELSE << >>)
        d == execute(f, adapter, [prefixed |-> FALSE, name |-> "read_file"],
                     a, e)
    IN  [d EXCEPT !.ret = sdk_text(d.ret)]

\* the SDK tool bash: asks the policy, then calls execute("bash", ...)
sdk_bash(f, adapter, command, e) ==
    IF ~e.verdict.allowed
    THEN [Done(Returned("str", Wrap("Error", MsgA("Command blocked",
                                                  e.verdict.reason))),
               f, << >>) EXCEPT !.policy = << e.verdict >>, !.route = "none"]
    ELSE LET d == execute(f, adapter, [prefixed |-> FALSE, name |-> "bash"],
                          "command" :> command, e)
         IN  [d EXCEPT !.ret = sdk_text(d.ret),
                       !.policy = << e.verdict >> \o d.policy]

\* ------------------------------------------------------ the tool arguments
Names == {"a", "lnk", ".."}

\* the sequences of at most n names
CompsUpTo(n) == UNION { [1 .. k -> Names] : k \in 0 .. n }

\* relative paths, and absolute paths into the project and into /etc
PathArgs ==
    { [abs |-> FALSE, comps |-> c] : c \in CompsUpTo(MaxDepth) }
    \cup { [abs |-> TRUE, comps |-> << t >> \o c] :
             t \in {"proj", "etc"}, c \in CompsUpTo(MaxDepth) }

\* the mappings with key k and a value of V, and the empty mapping
Opt(k, V) == { << >> } \cup { k :> v : v \in V }

\* the mappings of S, and those with one key of ks left out
OrWithout(S, ks) ==
    S \cup { [x \in DOMAIN a \ {k} |-> a[x]] : a \in S, k \in ks }

ArgsOf(tool_name) ==
    CASE tool_name.name = "read_file" ->
             OrWithout({ ("path" :> p) @@ o @@ l :
                           p \in PathArgs,
                           o \in Opt("offset", {0 - 1, 1}),
                           l \in Opt("limit", {1}) },
                       {"path"})
      [] tool_name.name = "write_file" ->
             OrWithout({ ("path" :> p) @@ ("content" :> << "x", NL, "x" >>) :
                           p \in PathArgs },
                       {"path", "content"})
      [] tool_name.name = "edit_file" ->
             OrWithout({ ("path" :> p) @@ ("old_string" :> << "x" >>)
                           @@ ("new_string" :> << "y" >>) @@ r :
                           p \in PathArgs,
                           r \in Opt("replace_all", {TRUE}) },
                       {"path", "old_string"})
      [] tool_name.name = "glob_search" ->
             OrWithout({ ("pattern" :> g) @@ o :
                           g \in Patterns, o \in Opt("path", PathArgs) },
                       {"pattern"})
      [] tool_name.name = "grep_search" ->
             OrWithout({ ("pattern" :> "x") @@ o @@ h @@ k @@ m :
                           o \in Opt("path", PathArgs),
                           h \in Opt("head_limit", {0, 1}),
                           k \in Opt("offset", {0 - 1}),
                           m \in Opt("output_mode", {"raw", ""}) },
                       {"pattern"})
      [] tool_name.name = "bash" ->
             { << >>, "command" :> "ls", "command" :> "rm -rf /" }
      [] OTHER -> { << >> }

ToolNames ==
    { [prefixed |-> FALSE, name |-> n] :
        n \in StdTools \cup {"puppeteer_navigate", "no_such_tool"} }
    \cup { [prefixed |-> TRUE, name |-> n] :
             n \in {"puppeteer_click", "read_file"} }

\* ------------------------------------------------------------------ actions
NoExec == [ api |-> "", tool |-> [prefixed |-> FALSE, name |-> ""],
            args |-> << >>, ret |-> NoRet, spawned |-> << >>,
            policy |-> << >>, rg |-> << >>, ran |-> << >>, route |-> "",
            before |-> [dirs |-> {}, files |-> << >>] ]

Called(api, t, a, d) ==
    /\ fs' = d.fs
    /\ lastCall' = [ api |-> api, tool |-> t, args |-> a, ret |-> d.ret,
                     spawned |-> d.spawned, policy |-> d.policy,
                     rg |-> d.rg, ran |-> d.ran, route |-> d.route,
                     before |-> fs ]
    /\ UNCHANGED << mcp_adapter, mcpVars >>

\* the caller calls execute and the call runs to its end
Execute ==
    /\ lastCall = NoExec
    /\ \E t \in ToolNames : \E a \in ArgsOf(t) :
           \E d \in { execute(fs, mcp_adapter, t, a, e) : e \in EnvsOf(t) } :
               Called("execute", t, a, d)

\* the caller awaits execute_async
ExecuteAsync ==
    /\ lastCall = NoExec
    /\ \E t \in ToolNames : \E a \in ArgsOf(t) :
           \E d \in { execute_async(fs, mcp_adapter, t, a, e) :
                        e \in EnvsOf(t) } :
               Called("execute_async", t, a, d)

\* the agent SDK calls the tool bash of sdk_tools
SdkBash ==
    /\ lastCall = NoExec
    /\ \E a \in { "command" :> "ls", "command" :> "rm -rf /" } :
           \E d \in { sdk_bash(fs, mcp_adapter, a["command"], e) :
                        e \in EnvsOf([prefixed |-> FALSE, name |-> "bash"]) } :
               Called("sdk_bash", [prefixed |-> FALSE, name |-> "bash"], a, d)

\* the caller has taken the value of its call
Collect ==
    /\ lastCall # NoExec
    /\ lastCall' = NoExec
    /\ UNCHANGED << fs, mcp_adapter, mcpVars >>

\* set_mcp_adapter: the provider attaches an adapter or takes it away
SetMcpAdapter ==
    /\ lastCall = NoExec
    /\ mcp_adapter' = ~mcp_adapter
    /\ UNCHANGED << fs, lastCall, mcpVars >>

\* the project at the start: empty but for the link, or with a text file, a
\* binary file or a directory holding a file at proj/a
EmptyProject ==
    [ dirs |-> { << >>, << "proj" >>, << "etc" >> },
      files |-> (<< "etc", "a" >> :> << "x" >>) ]

InitialFS ==
    { EmptyProject }
    \cup { [EmptyProject EXCEPT !.files =
                (<< "proj", "a" >> :> c) @@ EmptyProject.files] :
             c \in { << "x", NL, "x" >>, << BIN >> } }
    \cup { [ dirs |-> EmptyProject.dirs \cup { << "proj", "a" >> },
             files |-> (<< "proj", "a", "a" >> :> << "x" >>)
                           @@ EmptyProject.files ] }

ExecIdle ==
    /\ mcp_adapter = FALSE
    /\ lastCall = NoExec

InitExec ==
    /\ fs \in InitialFS
    /\ ExecIdle
    /\ InitAdapter

NextExec ==
    \/ Execute
    \/ ExecuteAsync
    \/ SdkBash
    \/ Collect
    \/ SetMcpAdapter

SpecExec == InitExec /\ [][NextExec]_vars

\* the adapter on its own, over a project that no tool touches
InitMCP ==
    /\ InitAdapter
    /\ fs = EmptyProject
    /\ ExecIdle

SpecMCP == InitMCP /\ [][NextMCP]_vars

\* the adapter after start() has returned: the child runs, the handshake is
\* done and has used the request id 1
InitStarted ==
    /\ timeout = PuppeteerTimeout
    /\ process = 1
    /\ initialized = TRUE
    /\ request_id = 1
    /\ lockHolder = 0
    /\ lockWaiters = << >>
    /\ lockBound = FALSE
    /\ alive = {1}
    /\ unanswered = << >>
    /\ childOut = << >>
    /\ decoded = << >>
    /\ orphans = << >>
    /\ inRead = FALSE
    /\ firstId = 1
    /\ pc = [c \in Callers |-> "idle"]
    /\ op = [c \in Callers |-> "none"]
    /\ rproc = [c \in Callers |-> 0]
    /\ req = [c \in Callers |-> 0]
    /\ issuedInit = [c \in Callers |-> FALSE]
    /\ lastRet = NoCall
    /\ lastWrite = NoWrite
    /\ lastSpawn = 0
    /\ stopDone = FALSE
    /\ shake = [ch \in Children |-> IF ch = 1 THEN "notified" ELSE "none"]
    /\ fs = EmptyProject
    /\ ExecIdle

SpecSession == InitStarted /\ [][NextMCP]_vars

\* ------------------------------------------- the executor on a live session
\* the request of a call_tool that asyncio.run runs in a thread of the pool,
\* on a loop of its own: it takes a free lock nobody waits for; it cannot wait
\* for a lock that is bound to the loop of the tasks; it waits for one that
\* is bound to no loop yet
send_request_thread(c, s) ==
    IF s.lockHolder = 0 /\ s.lockWaiters = << >>
    THEN send_request_locked(c, "execute", [s EXCEPT !.lockHolder = c], "none")
    ELSE IF s.lockBound
         THEN after_request(c, "execute", s,
                  OutRaise("RuntimeError",
                           Msg("is bound to a different event loop")), "none")
         ELSE Step([s EXCEPT !.lockWaiters = Append(s.lockWaiters, c)],
                   "await_lock", NoRet, NoOut, 0, 0)

\* an executor that brings a session that is not running back up
browser_call_restart(c, s, adapter, api) ==
    IF ~adapter THEN Step(s, "done", NotEnabled, NoOut, 0, 0)
    ELSE IF ~is_running(s) THEN start(c, s, "ok", "none")
         ELSE send_request(c, api, s, "none")

\* _execute_browser_tool_async and _execute_browser_tool up to the first
\* suspension of the call_tool they run
browser_call(c, s, adapter, api) ==
    IF ~adapter THEN Step(s, "done", NotEnabled, NoOut, 0, 0)
    ELSE IF api = "execute_async"
         THEN send_request(c, "execute_async", s, "none")
         ELSE send_request_thread(c, s)

\* task c awaits execute_async for a browser tool
CallExecuteAsync(c) ==
    /\ Begin(c)
    /\ (mcp_adapter /\ DrawsId) => IdLeft
    /\ Commit(c, "execute_async",
              browser_call(c, Sess, mcp_adapter, "execute_async"))
    /\ UNCHANGED stopDone

\* task c calls the blocking execute for a browser tool
CallExecute(c) ==
    /\ Begin(c)
    /\ (mcp_adapter /\ DrawsId) => IdLeft
    /\ Commit(c, "execute", browser_call(c, Sess, mcp_adapter, "execute"))
    /\ UNCHANGED stopDone

NextBrowser ==
    \/ NextMCP
    \/ \E c \in Callers : CallExecuteAsync(c)
    \/ \E c \in Callers : CallExecute(c)
    \/ SetMcpAdapter

SpecBrowser == InitStarted /\ [][NextBrowser]_vars

\* ------------------------------------------- one call on a file that is given
\* the strings of at most n characters of A
Strings(A, n) == UNION { [1 .. k -> A] : k \in 0 .. n }

\* strings longer than the preview of edit_file, and as long as it
LongStrings == { [i \in 1 .. n |-> "z"] : n \in {PreviewLen, PreviewLen + 1} }

TheFile == [abs |-> FALSE, comps |-> << "a" >>]

Tool(n) == [prefixed |-> FALSE, name |-> n]

\* proj/a is a directory that holds the directories a and lnk
DirProject ==
    [ dirs |-> EmptyProject.dirs
                 \cup { << "proj", "a" >>, << "proj", "a", "a" >>,
                        << "proj", "a", "lnk" >> },
      files |-> EmptyProject.files ]

\* proj/a holds text with any line endings, or bytes that are not UTF-8, or
\* does not exist, or is a directory
FileFixtures ==
    { EmptyProject, DirProject }
    \cup { [EmptyProject EXCEPT !.files =
                (<< "proj", "a" >> :> c) @@ EmptyProject.files] :
             c \in Strings({"x", NL, CR}, MaxLen) \cup { << "x", BIN >> } }

EditArgs ==
    { ("path" :> TheFile) @@ ("old_string" :> o) @@ ("new_string" :> n) @@ r :
        o \in Strings({"x", NL}, MaxLen) \cup LongStrings,
        n \in { << >>, << "y" >>, << "x", "x" >> },
        r \in Opt("replace_all", BOOLEAN) }

\* the model edits the file
EditFile ==
    /\ lastCall = NoExec
    /\ \E a \in EditArgs :
           Called("execute", Tool("edit_file"), a,
                  execute(fs, mcp_adapter, Tool("edit_file"), a, QuietEnv))

ReadArgs ==
    { ("path" :> TheFile) @@ o @@ l :
        o \in Opt("offset", (0 - 1) .. (MaxLen + 1)),
        l \in Opt("limit", 0 .. 2) }

\* the model reads the file through execute
ReadFile ==
    /\ lastCall = NoExec
    /\ \E a \in ReadArgs :
           Called("execute", Tool("read_file"), a,
                  execute(fs, mcp_adapter, Tool("read_file"), a, QuietEnv))

WriteArgs ==
    { ("path" :> p) @@ ("content" :> c) :
        p \in { TheFile, [abs |-> FALSE, comps |-> << "a", "a" >>] },
        c \in Strings({"x", NL}, MaxLen - 1)
                \cup { << NonAscii >>, << "x", NonAscii, CR, NL >> } }

\* the model writes a file
WriteFile ==
    /\ lastCall = NoExec
    /\ \E a \in WriteArgs :
           Called("execute", Tool("write_file"), a,
                  execute(fs, mcp_adapter, Tool("write_file"), a, QuietEnv))

\* patterns with "..", with "*" above and below it, and absolute patterns
GlobPatterns ==
    Patterns
    \cup { [abs |-> FALSE, segs |-> g] :
             g \in { << "*", ".." >>, << "..", "*" >>, << "*", "*" >>,
                     << "*", "..", "*" >> } }
    \cup { [abs |-> TRUE, segs |-> << t, "*" >>] : t \in {"proj", "etc"} }

GlobArgs ==
    { ("pattern" :> g) @@ o :
        g \in GlobPatterns,
        o \in Opt("path", { [abs |-> FALSE, comps |-> c] :
                              c \in { << >>, << "a" >>, << "a", "a" >> } }
                          \cup { [abs |-> TRUE, comps |-> << "proj", "a" >>] }) }

\* the model searches for files by pattern
GlobSearch ==
    /\ lastCall = NoExec
    /\ \E a \in GlobArgs :
           \E d \in { execute(fs, mcp_adapter, Tool("glob_search"), a, e) :
                        e \in EnvsOf(Tool("glob_search")) } :
               Called("execute", Tool("glob_search"), a, d)

\* what rg prints in the searches of GrepSearch
GrepOutputs ==
    Strings({"x", " ", NL}, MaxLen)
    \cup { << "a", NL, "b", NL, "c", NL >>,
           << "a", NL, "b", NL, "c", NL, "d", NL, "e", NL >> }

GrepArgs ==
    { ("pattern" :> "x") @@ h @@ k :
        h \in Opt("head_limit", 0 .. 2),
        k \in Opt("offset", (0 - 1) .. MaxLen) }

\* the model searches the empty project with rg installed; what rg finds
\* is drawn from GrepOutputs, whatever the files are
GrepSearch ==
    /\ lastCall = NoExec
    /\ fs = EmptyProject
    /\ \E a \in GrepArgs :
           \E r \in [rc : {0, 1, 2}, stdout : GrepOutputs,
                      stderr : {"", "warning"}] :
               Called("execute", Tool("grep_search"), a,
                      execute(fs, mcp_adapter, Tool("grep_search"), a,
                              [QuietEnv EXCEPT !.run = r]))

\* the agent SDK calls the tool read_file of sdk_tools
SdkReadFile ==
    /\ lastCall = NoExec
    /\ \E a \in ReadArgs :
           Called("sdk_read_file", Tool("read_file"), a,
                  sdk_read_file(fs, mcp_adapter, a, QuietEnv))

InitFile ==
    /\ fs \in FileFixtures
    /\ ExecIdle
    /\ InitAdapter

NextFile ==
    \/ EditFile
    \/ ReadFile
    \/ SdkReadFile
    \/ WriteFile
    \/ GlobSearch
    \/ GrepSearch

SpecFile == InitFile /\ [][NextFile]_vars

\* ================================================= properties of the session
\* the key of the mapping that the call which returned in the last step
\* handed back
Keys(r) == DOMAIN r.val

\* the request cycle of the call that returned in the last step failed
CycleFailed(o) == o.kind = "raise" \/ HasErrorField(o.reply)

\* C3: a call_tool issued while the session is not initialized (before
\* start() completed the handshake, while start() is in progress, or after
\* stop()) writes no tools/call request and returns an error result.
C3_UninitializedCallToolFails ==
    /\ \A c \in Callers :
           (op[c] = "call_tool" /\ pc[c] = "await_resp") => issuedInit[c]
    /\ (lastRet.op = "call_tool" /\ ~lastRet.issuedInit) =>
           (lastRet.ret.kind = "return" /\ Keys(lastRet.ret) = {"error"})

\* C4: once a stop() has stopped an initialized session, no later step
\* spawns a child process or makes the session initialized again.
C4_StoppedIsTerminal ==
    [][stopDone => (lastSpawn' = 0 /\ (initialized' => initialized))]_vars

\* C5: a start() that fails raises MCPError and leaves the session not
\* initialized and without a process handle; for a missing executable the
\* error names the command.  Stated for a start() that fails while no
\* other call is under way.
C5_FailedStartLeavesNothing ==
    (/\ lastRet.op = "start"
     /\ lastRet.ret.kind = "raise"
     /\ \A c \in Callers : pc[c] \in {"idle", "done"}) =>
        /\ lastRet.ret.exc = "MCPError"
        /\ process = 0
        /\ ~initialized
        /\ lastRet.ret.val["exception"].text = "MCP server command not found"
               => lastRet.ret.val["exception"].arg = "npx"

\* C6: at most one request is in flight: a task waits for a response only
\* for the request written last, and no notification is written while a task
\* waits for a response.
C6_OneRequestInFlight ==
    /\ Cardinality({c \in Callers : pc[c] = "await_resp"}) <= 1
    /\ \A c \in Callers :
           pc[c] = "await_resp" =>
               /\ lockHolder = c
               /\ req[c] = request_id
               /\ lastWrite # NoWrite =>
                      (lastWrite.id = req[c] /\ lastWrite.child = rproc[c])

\* a task waits for its response while another one waits for the gate
C6_Witness ==
    \E c, d \in Callers :
        /\ pc[c] = "await_resp"
        /\ pc[d] \in {"await_lock", "await_lock_notify"}

\* C7: stop() returns normally whatever its cleanup meets, and afterwards no
\* process handle is held and the initialized flag is false.
C7_StopNeverRaises ==
    lastRet.op = "stop" =>
        /\ lastRet.ret.kind = "return"
        /\ process = 0
        /\ ~initialized

\* a stop() that held the handle of an initialized session has returned
\* although the child is still there (its cleanup failed)
C7_Witness ==
    /\ lastRet.op = "stop"
    /\ lastRet.procBefore # 0
    /\ lastRet.initBefore
    /\ \E c \in Callers : pc[c] = "await_resp" /\ rproc[c] \in alive

\* C8: a call_tool whose request timed out returns an error that reports
\* the session's timeout, and the step keeps the process handle and the
\* initialized flag and spawns nothing.
C8_TimeoutLeavesSession ==
    (lastRet.op = "call_tool"
        /\ lastRet.out.msg.text = "MCP request timed out after") =>
        /\ lastRet.ret.kind = "return"
        /\ Keys(lastRet.ret) = {"error"}
        /\ lastRet.ret.val["error"] =
               Wrap("MCP communication failed",
                    MsgN("MCP request timed out after", timeout))
        /\ process = lastRet.procBefore
        /\ initialized = lastRet.initBefore
        /\ lastSpawn = 0

\* a call_tool of an initialized session has timed out
C8_Witness ==
    /\ lastRet.op = "call_tool"
    /\ lastRet.out.msg.text = "MCP request timed out after"
    /\ initialized
    /\ process # 0

\* C9: call_tool never raises; what it returns has exactly one of the keys
\* result and error, and the error key whenever the request cycle failed.
C9_CallToolNeverRaises ==
    lastRet.op = "call_tool" =>
        /\ lastRet.ret.kind = "return"
        /\ Keys(lastRet.ret) \in {{"result"}, {"error"}}
        /\ CycleFailed(lastRet.out) => Keys(lastRet.ret) = {"error"}

\* a call_tool has returned after reading a line that is not JSON
C9_Witness ==
    /\ lastRet.op = "call_tool"
    /\ lastRet.out.msg.text = "Invalid JSON response from MCP server"
    /\ Keys(lastRet.ret) = {"error"}

\* ================================================ properties of the executor
FileTools == {"read_file", "write_file", "edit_file", "glob_search",
              "grep_search"}

\* the path normalizes to a place that is neither the project directory nor
\* below it
Escapes(path) == ~IsUnder(resolve(path), project_dir)

\* the call is one of a file tool with a path argument that escapes
EscapingCall(c) ==
    /\ c.api \in {"execute", "execute_async"}
    /\ ~c.tool.prefixed
    /\ c.tool.name \in FileTools
    /\ "path" \in DOMAIN c.args
    /\ Escapes(c.args["path"])

\* the security error that names the path
SecurityViolation(path) ==
    Returned("error", Wrap("Security violation",
                           MsgP("Path escape attempt blocked", path)))

\* the call has its required arguments and, for grep_search, gets as far as
\* the check of the path: rg is installed and head_limit is valid
ReachesPathCheck(c) ==
    /\ FirstMissing(c.args, RequiredKeys(c.tool.name)) = ""
    /\ c.tool.name = "grep_search" =>
           /\ c.rg = << TRUE >>
           /\ "head_limit" \in DOMAIN c.args => c.args["head_limit"] >= 1
           /\ "offset" \in DOMAIN c.args => c.args["offset"] >= 0

\* C1 as stated: every call of a file tool with an escaping path returns the
\* security error naming the path and changes no file or directory.  Stated
\* for the calls that carry all their required arguments.
C1_EscapeReturnsSecurityError ==
    [][(/\ EscapingCall(lastCall')
        /\ FirstMissing(lastCall'.args,
                        RequiredKeys(lastCall'.tool.name)) = "") =>
           /\ fs' = fs
           /\ lastCall'.ret = SecurityViolation(lastCall'.args["path"])]_vars

\* C1: every call of a file tool with an escaping path returns an error and
\* changes no file or directory; the error is the security error naming the
\* path when the call has its required arguments and, for grep_search, rg is
\* installed and head_limit and offset are valid.
C1_EscapeBlocked ==
    [][EscapingCall(lastCall') =>
           /\ fs' = fs
           /\ lastCall'.ret.kind = "return"
           /\ Keys(lastCall'.ret) = {"error"}
           /\ ReachesPathCheck(lastCall') =>
                  lastCall'.ret = SecurityViolation(lastCall'.args["path"])]_vars

\* write_file through the link that leads out of the project was refused
C1_Witness ==
    /\ EscapingCall(lastCall)
    /\ lastCall.tool.name = "write_file"
    /\ ~lastCall.args["path"].abs
    /\ lastCall.args["path"].comps = << "lnk" >>
    /\ lastCall.ret = SecurityViolation(lastCall.args["path"])

\* C2: a bash call that the policy denies returns 'Command blocked: <reason>'
\* with the policy's reason and spawns nothing; a command is spawned only
\* after the policy allowed it.
C2_DeniedNeverSpawns ==
    (lastCall.tool.name = "bash" /\ ~lastCall.tool.prefixed) =>
        /\ lastCall.spawned # << >> =>
               (lastCall.policy # << >> /\ lastCall.policy[1].allowed)
        /\ (lastCall.policy # << >> /\ ~lastCall.policy[1].allowed) =>
               /\ lastCall.spawned = << >>
               /\ lastCall.ret =
                      IF lastCall.api = "sdk_bash"
                      THEN Returned("str", Wrap("Error",
                               MsgA("Command blocked",
                                    lastCall.policy[1].reason)))
                      ELSE Returned("error",
                               MsgA("Command blocked",
                                    lastCall.policy[1].reason))

\* execute("bash", ...) was denied by the policy
C2_Witness ==
    /\ lastCall.api = "execute"
    /\ lastCall.tool.name = "bash"
    /\ lastCall.policy # << >>
    /\ ~lastCall.policy[1].allowed
    /\ lastCall.policy[1].reason = "not in the allowlist"

\* C10: execute and execute_async return a mapping with exactly one of the
\* keys result and error and raise nothing, whatever the tool name and the
\* arguments.
C10_ExecuteNeverRaises ==
    lastCall.api \in {"execute", "execute_async"} =>
        /\ lastCall.ret.kind = "return"
        /\ Keys(lastCall.ret) \in {{"result"}, {"error"}}

\* execute_async("edit_file", ...) without old_string has returned an error
C10_Witness ==
    /\ lastCall.api = "execute_async"
    /\ lastCall.tool.name = "edit_file"
    /\ ~lastCall.tool.prefixed
    /\ "old_string" \notin DOMAIN lastCall.args
    /\ "path" \in DOMAIN lastCall.args
    /\ Keys(lastCall.ret) = {"error"}
    /\ lastCall.ret.val["error"].pre = << "Tool execution failed" >>

FileCall(api, n) ==
    /\ lastCall.api = api
    /\ lastCall.tool = Tool(n)
    /\ lastCall.args["path"] = TheFile

\* proj/a was a regular file before the call, and what it held
WasFile == << "proj", "a" >> \in DOMAIN lastCall.before.files
Before  == lastCall.before.files[<< "proj", "a" >>]
IsFile  == << "proj", "a" >> \in DOMAIN fs.files
After   == fs.files[<< "proj", "a" >>]

Range(s) == { s[i] : i \in DOMAIN s }

\* the text of a file: a line feed that follows a carriage return is left out
\* and every carriage return is a line feed
RECURSIVE TextFrom(_, _)
TextFrom(raw, i) ==
    IF i > Len(raw) THEN << >>
    ELSE (IF raw[i] = NL /\ i > 1 /\ raw[i - 1] = CR THEN << >>
          ELSE IF raw[i] = CR THEN << NL >> ELSE << raw[i] >>)
         \o TextFrom(raw, i + 1)

TextOf(raw) == TextFrom(raw, 1)

\* s holds old at position i
OccursAt(s, old, i) ==
    i + Len(old) - 1 <= Len(s) /\ SubSeq(s, i, i + Len(old) - 1) = old

Occurs(s, old) == \E i \in 1 .. Len(s) + 1 : OccursAt(s, old, i)

\* the error that shows at most the first 100 characters of old
NotFoundError(old) ==
    \E b \in { lastCall.ret.val["error"].body } :
        /\ lastCall.ret.val["error"].text = "String not found in file"
        /\ IF Len(old) <= PreviewLen THEN b = old
           ELSE /\ Len(b) = PreviewLen + 3
                /\ SubSeq(b, 1, PreviewLen) = SubSeq(old, 1, PreviewLen)
                /\ SubSeq(b, PreviewLen + 1, PreviewLen + 3) = << ".", ".", "." >>

C12_Outcome ==
    /\ lastCall.ret.kind = "return"
    /\ Keys(lastCall.ret) = {"error"}
    /\ NotFoundError(lastCall.args["old_string"])
    /\ fs = lastCall.before

\* C12 as stated: edit_file on an existing file whose bytes do not hold
\* old_string returns the error with the preview of old_string cut at 100
\* characters, and the file is as it was
C12_NotFoundKeepsFile ==
    (FileCall("execute", "edit_file") /\ WasFile
       /\ ~Occurs(Before, lastCall.args["old_string"])) => C12_Outcome

\* C12, amended: edit_file on an existing file that decodes as UTF-8 and
\* whose text, with every line ending read as a line feed, does not hold
\* old_string returns the error with the preview of old_string cut at 100
\* characters, and the file is as it was
C12_NotFoundInTextKeepsFile ==
    (FileCall("execute", "edit_file") /\ WasFile
       /\ BIN \notin Range(Before)
       /\ ~Occurs(TextOf(Before), lastCall.args["old_string"])) => C12_Outcome

\* an old_string of more than 100 characters was not found
C12_Witness ==
    /\ FileCall("execute", "edit_file") /\ WasFile
    /\ BIN \notin Range(Before)
    /\ Len(lastCall.args["old_string"]) > PreviewLen
    /\ Keys(lastCall.ret) = {"error"}
    /\ Len(lastCall.ret.val["error"].body) = PreviewLen + 3

\* what lies between the occurrences of old in s, counted from the left
\* without overlap; the empty string occurs before every character and at
\* the end
RECURSIVE PiecesAcc(_, _, _)
PiecesAcc(s, old, cur) ==
    IF Len(s) < Len(old) THEN << cur \o s >>
    ELSE IF SubSeq(s, 1, Len(old)) = old
         THEN << cur >> \o PiecesAcc(SubSeq(s, Len(old) + 1, Len(s)), old, << >>)
         ELSE PiecesAcc(Tail(s), old, Append(cur, Head(s)))

Pieces(s, old) ==
    IF old = << >>
    THEN << << >> >> \o [i \in 1 .. Len(s) |-> << s[i] >>] \o << << >> >>
    ELSE PiecesAcc(s, old, << >>)

RECURSIVE Join(_, _)
Join(ps, sep) ==
    IF Len(ps) = 1 THEN ps[1] ELSE ps[1] \o sep \o Join(Tail(ps), sep)

\* C13: edit_file on a file of UTF-8 text in which old_string occurs N >= 1
\* times: without replace_all the file afterwards is the file before with the
\* first occurrence replaced and everything else as it was, and the count
\* reported is 1; with replace_all every occurrence is replaced, everything
\* else is as it was, and the count reported is N
C13_ReplacesOccurrences ==
    (FileCall("execute", "edit_file") /\ WasFile
       /\ BIN \notin Range(Before)
       /\ Len(Pieces(Before, lastCall.args["old_string"])) > 1) =>
        LET old == lastCall.args["old_string"]
            new == lastCall.args["new_string"]
            ps  == Pieces(Before, old)
            all == "replace_all" \in DOMAIN lastCall.args
                     /\ lastCall.args["replace_all"]
        IN  /\ Keys(lastCall.ret) = {"result"}
            /\ lastCall.ret.val["result"].text = "Replaced"
            /\ lastCall.ret.val["result"].n
                  = (IF all THEN Len(ps) - 1 ELSE 1)
            /\ IsFile
            /\ After = (IF all THEN Join(ps, new)
                        ELSE ps[1] \o new \o Join(Tail(ps), old))

\* the lines of a text: one for every line feed, and one more for what
\* follows the last line feed
LineCount(text) ==
    Cardinality({ i \in 1 .. Len(text) : text[i] = NL })
      + (IF text # << >> /\ text[Len(text)] # NL THEN 1 ELSE 0)

\* read_file on proj/a, a file of UTF-8 text, with offset or limit set
PagedRead ==
    /\ FileCall("execute", "read_file") /\ WasFile
    /\ BIN \notin Range(Before)
    /\ DOMAIN lastCall.args \cap {"offset", "limit"} # {}

\* what C14 says of a paged read
C14_Outcome ==
    LET a == lastCall.args
        T == LineCount(TextOf(Before))
    IN  /\ (Before # << >> /\ "offset" \in DOMAIN a /\ a["offset"] >= T) =>
              lastCall.ret = Returned("error",
                  MsgB("Offset beyond end of file", << a["offset"], T >>))
        /\ (Before = << >> /\ ("offset" \notin DOMAIN a \/ a["offset"] = 0)) =>
              lastCall.ret = Returned("result",
                  Msg("[lines 0-0 of 0] (file is empty)"))
        /\ (Before = << >> /\ "offset" \in DOMAIN a /\ a["offset"] # 0) =>
              Keys(lastCall.ret) = {"error"}

C15_WholeFileNoHeader ==
    \A api \in {"execute", "sdk_read_file"} :
        (FileCall(api, "read_file") /\ WasFile
           /\ BIN \notin Range(Before)
           /\ DOMAIN lastCall.args \cap {"offset", "limit"} = {}) =>
            lastCall.ret = Returned(IF api = "execute" THEN "result" ELSE "str",
                                    MsgB("", TextOf(Before)))

\* write_file on a path in the project that no file or directory is in the
\* way of
WritableCall ==
    /\ lastCall.api = "execute" /\ lastCall.tool = Tool("write_file")
    /\ LET p == resolve(lastCall.args["path"])
       IN  /\ IsUnder(p, project_dir)
           /\ p \notin lastCall.before.dirs
           /\ \A q \in Ancestors(p) : q \notin DOMAIN lastCall.before.files

\* C16: write_file on a path in the project makes the directories above it,
\* leaves the file holding content and nothing else, and reports the number
\* of bytes it wrote to the file
C16_WritesContentReportsBytes ==
    WritableCall =>
        LET p == resolve(lastCall.args["path"])
            content == lastCall.args["content"]
        IN  /\ Keys(lastCall.ret) = {"result"}
            /\ Ancestors(p) \subseteq fs.dirs
            /\ p \in DOMAIN fs.files /\ fs.files[p] = content
            /\ lastCall.ret.val["result"].text = "Successfully wrote"
            /\ lastCall.ret.val["result"].n = ByteLen(content)

\* a glob_search that returned a result
GlobResult ==
    /\ lastCall.api = "execute" /\ lastCall.tool = Tool("glob_search")
    /\ "pattern" \in DOMAIN lastCall.args
    /\ Keys(lastCall.ret) = {"result"}

GrepCall ==
    /\ lastCall.api \in {"execute", "execute_async"}
    /\ lastCall.tool = Tool("grep_search")

BadLimits ==
    \/ "head_limit" \in DOMAIN lastCall.args /\ lastCall.args["head_limit"] < 1
    \/ "offset" \in DOMAIN lastCall.args /\ lastCall.args["offset"] < 0

ApprovedBash ==
    /\ lastCall.api \in {"execute", "execute_async"}
    /\ lastCall.tool = Tool("bash")
    /\ lastCall.policy # << >>
    /\ lastCall.policy[1].allowed

\* C19: for an approved command, a command that ran to its end gives a
\* 'result', with the annotation of the exit status when that is not 0, and
\* an 'error' comes only with the time limit exceeded, as the timeout
\* error, or with a command that could not be run
C19_ExitStatusIsResult ==
    ApprovedBash =>
        /\ lastCall.ran # << >>
        /\ LET run == lastCall.ran[1]
           IN  /\ run.kind \in {"completed", "UnicodeDecodeError"} =>
                     /\ Keys(lastCall.ret) = {"result"}
                     /\ run.rc # 0 =>
                           /\ lastCall.ret.val["result"].text = "output"
                           /\ lastCall.ret.val["result"].body[3] = << run.rc >>
               /\ Keys(lastCall.ret) = {"error"} =>
                     \/ /\ run.kind = "TimeoutExpired"
                        /\ lastCall.ret.val["error"]
                              = Msg("Command timed out after 5 minutes")
                     \/ /\ run.kind = "OSError"
                        /\ lastCall.ret.val["error"].pre
                              = << "Command execution failed" >>
               /\ Keys(lastCall.ret) \in { {"result"}, {"error"} }

\* C20: the response that call_tool takes for its request is the child's
\* reply to that request: the id of the line read is the id of the request
\* written. Every child of the model answers each request once, oldest first
C20_ResponseMatchesRequest ==
    (lastRet.op = "call_tool" /\ lastRet.out.kind = "resp") =>
        lastRet.out.id = lastRet.req

\* C21: the first line written to a child is its initialize request, the
\* initialized notification is written to a child only after a response to
\* initialize without an error field has been read from it, and the
\* initialized flag turns true only in a step that writes the notification
C21_HandshakeOrder ==
    /\ (lastWrite.child # 0 /\ lastWrite.stage = "spawned") =>
           lastWrite.method = "initialize"
    /\ lastWrite.method = "notifications/initialized" =>
           lastWrite.stage = "ok"
    /\ (initialized /\ lastRet.by # 0 /\ ~lastRet.initBefore) =>
           lastWrite.method = "notifications/initialized"

\* C22: a request line carries the counter's new value, which is greater
\* than the counter was, the counter never goes down, and a notification
\* carries no id: the ids of the requests of a session go up strictly in
\* the order the requests are written, whatever the tasks do and whether
\* earlier requests failed
C22_RequestIdsIncrease ==
    [][ /\ request_id' >= request_id
        /\ lastWrite'.child # 0 =>
               IF lastWrite'.method = "notifications/initialized"
               THEN lastWrite'.id = 0 /\ request_id' = request_id
               ELSE lastWrite'.id = request_id' /\ lastWrite'.id > request_id
      ]_vars

\* a third request is written after an earlier request of the session
\* timed out
C22_Witness ==
    /\ lastWrite.method = "tools/call"
    /\ lastWrite.id = 3
    /\ orphans # << >>

\* the operations of the ToolExecutor that go to the session
ExecOps == {"execute_async", "execute"}

\* C23: a step of execute or execute_async for a browser tool (a step that
\* moves the task or returns to it; set_mcp_adapter is no such step) leaves the
\* session's process handle, its initialized flag and its child as they
\* were: it spawns nothing and the child keeps running or stays ended; all
\* it writes is a tools/call request; and called with no adapter attached it
\* returns the error 'Browser tools are not enabled' and writes nothing,
\* draws no id and leaves the gate alone
C23_ExecutorLeavesLifecycle ==
    [][ \A c \in Callers :
          (op'[c] \in ExecOps \/ (lastRet'.by = c /\ lastRet'.op \in ExecOps))
          /\ (pc'[c] # pc[c] \/ lastRet'.by = c)
          /\ mcp_adapter' = mcp_adapter
          =>
          /\ process' = process
          /\ initialized' = initialized
          /\ lastSpawn' = 0
          /\ (process' \in alive') = (process \in alive)
          /\ lastWrite'.child # 0 => lastWrite'.method = "tools/call"
          /\ (pc[c] \in {"idle", "done"} /\ ~mcp_adapter) =>
                 /\ lastRet'.ret = NotEnabled
                 /\ lastWrite' = NoWrite
                 /\ request_id' = request_id
                 /\ lockHolder' = lockHolder
                 /\ lockWaiters' = lockWaiters
      ]_vars

\* an execute_async call has gone to a running session and returned what
\* the child answered
C23_Witness ==
    /\ lastRet.op = "execute_async"
    /\ lastRet.ret.kind = "return"
    /\ "result" \in DOMAIN lastRet.ret.val
    /\ initialized
    /\ process \in alive

\* index of the n-th line feed of a text
NthNL(text, n) ==
    CHOOSE i \in 1 .. Len(text) :
        text[i] = NL /\ Cardinality({j \in 1 .. i : text[j] = NL}) = n

\* where line k of a text begins and where it ends, its line feed left out
LineStart(text, k) == IF k = 1 THEN 1 ELSE NthNL(text, k - 1) + 1
LineEnd(text, k) ==
    IF Cardinality({j \in 1 .. Len(text) : text[j] = NL}) >= k
    THEN NthNL(text, k) - 1
    ELSE Len(text)

GrepRan ==
    /\ GrepCall
    /\ lastCall.ran # << >>
    /\ lastCall.ran[1].rc \in {0, 1}

GrepOffset ==
    IF "offset" \in DOMAIN lastCall.args THEN lastCall.args["offset"] ELSE 0

\* the lines offset+1 .. min(offset + head_limit, L) of a text of L lines,
\* then the truncation marker when head_limit is set and L > offset +
\* head_limit, then the note of what rg wrote to stderr
GrepWindow(text) ==
    LET a == lastCall.args
        L == LineCount(text)
        limited == "head_limit" \in DOMAIN a
        e == IF limited /\ GrepOffset + a["head_limit"] < L
             THEN GrepOffset + a["head_limit"] ELSE L
        picked == SubSeq(text, LineStart(text, GrepOffset + 1),
                         LineEnd(text, e))
        marked == IF limited /\ L > GrepOffset + a["head_limit"]
                  THEN picked \o << NL >> \o TruncationMarker ELSE picked
        err == lastCall.ran[1].stderr
    IN  IF err = "" THEN marked ELSE marked \o << NL, "[stderr]: ", err >>

C26_ErrorsOnlyFromExitCode ==
    (GrepCall /\ lastCall.ran # << >>) =>
        LET run == lastCall.ran[1]
        IN  /\ Keys(lastCall.ret) = {"error"} =>
                  \/ run.rc \notin {0, 1}
                  \/ "offset" \in DOMAIN lastCall.args
            /\ (run.rc = 1 /\ run.stdout = << >>) =>
                  lastCall.ret = Returned("result", Msg("No matches found"))
            /\ (run.rc \in {0, 1} /\ "offset" \notin DOMAIN lastCall.args) =>
                  Keys(lastCall.ret) = {"result"}


\* the event loop runs every task that is ready: a task that was handed the
\* lock is resumed, and a task that awaits wait_for(readline, timeout) is
\* resumed with the line, with the end of the stream or, after at most
\* timeout seconds, with asyncio.TimeoutError
SpecMCPFair ==
    /\ SpecMCP
    /\ \A c \in Callers :
           /\ WF_vars(LockGranted(c))
           /\ WF_vars(ReadLine(c) \/ ReadTimeout(c) \/ ReadEOF(c))

AtGate(c) == pc[c] \in {"await_lock", "await_lock_notify"}

\* C27: the lock is held only by a task that is inside its request cycle or
\* has just been handed the lock, so every way out of the cycle (time limit,
\* broken pipe, end of stream, malformed JSON, response) has released it;
\* and every task that waits for the lock is eventually resumed with the
\* lock and goes on to its write
C27_GateIsReleased ==
    /\ [](\A c \in Callers :
             lockHolder = c =>
                 pc[c] \in {"await_resp", "await_lock", "await_lock_notify"})
    /\ \A c \in Callers : AtGate(c) ~> ~AtGate(c)

\* the second task called while the first held the lock; the request of
\* the first ran into the time limit and the second wrote its request
C27_Witness ==
    /\ pc[1] = "done"
    /\ pc[2] = "await_resp"
    /\ lockHolder = 2
    /\ lockBound
    /\ orphans # << >>
    /\ lastWrite.method = "tools/call"
    /\ lastWrite.id = req[2]


\* C28: whenever the initialized flag is true, the session holds the handle
\* of a child that was sent initialize as its first message and whose
\* initialize response, without an error field, has been read
C28_InitializedMeansHandshaken ==
    initialized => (process # 0 /\ shake[process] \in {"ok", "notified"})


\* C29: when a call of start() returns without raising, the session is
\* initialized, also when the call overlaps with another start() that is
\* still in its handshake
C29_StartReturnsInitialized ==
    (lastRet.op = "start" /\ lastRet.ret.kind = "return") => initialized


\* the executor on a live session, with the scheduling of SpecMCPFair: a
\* task or a pool thread that was handed the lock is resumed, and an awaited
\* readline ends
SpecBrowserFair ==
    /\ SpecBrowser
    /\ \A c \in Callers :
           /\ WF_vars(LockGranted(c))
           /\ WF_vars(ReadLine(c) \/ ReadTimeout(c) \/ ReadEOF(c))

\* C30: every call of the blocking execute() for a browser tool comes back
\* to its caller, with a result or an error, also when it is made on the
\* thread of a running event loop while a task of that loop holds the lock
C30_ExecuteReturns ==
    \A c \in Callers : (op[c] = "execute") ~> (op[c] # "execute")

====
